---- MODULE Spec2Model ----
(***************************************************************************)
(* A model of the example programs of go-by-examples.  Every file of the   *)
(* repository is an independent main program; a behaviour of this module   *)
(* is one run of one of them, chosen by prog in Init.  The process-level   *)
(* state (exit status, standard output, the main goroutine's deferred      *)
(* calls and panic) is shared by the programs' actions, each program keeps *)
(* its own variables besides.                                              *)
(***************************************************************************)
EXTENDS Integers, Sequences, FiniteSets, TLC

VARIABLES
    prog,       \* the program this run executes
    proc,       \* "running", "exited", "killed" (by a signal) or "replaced" (exec)
    status,     \* the exit status, once proc = "exited"
    pc,         \* the main goroutine's position
    out,        \* the lines printed so far
    defers,     \* the main goroutine's stack of deferred calls
    panicVal,   \* the value of the panic in progress, "none" without one
    err,        \* the error value main holds, "nil" without one
    calls,      \* the calls made so far, each with the error it returned
    f,          \* defer: the file createFile returned (a descriptor), 0 before
    heap,       \* closures: the captured variables i, one cell per intSeq() call
    fns,        \* closures: the function values, each the address of its cell
    rets,       \* closures: per function value, the values its calls returned
    notified,   \* signals: signal.Notify has registered sigs
    sigs,       \* signals: the channel sigs (capacity 1)
    done,       \* signals: the channel done (capacity 1)
    pcG,        \* signals: the goroutine's position
    sig,        \* signals: the goroutine's variable sig
    arrived,    \* signals: the SIGINT/SIGTERM signals sent to the process so far
    reqs,       \* context: per request, the state of its hello handler
    gstep,      \* spawn: the statement of the grep exchange main is at
    grepIn,     \* spawn: main's end of grep's stdin: "nil", "open" or "closed"
    grepOut,    \* spawn: main's end of grep's stdout: "nil", "open" or "closed"
    inBuf,      \* spawn: the lines in the stdin pipe
    outBuf,     \* spawn: the lines in the stdout pipe
    toWrite,    \* spawn: what grepIn.Write has still to write
    grepBytes,  \* spawn: what ioutil.ReadAll has read so far
    child,      \* spawn: grep: "none", "running", "exited" or "notstarted"
    held,       \* spawn: the matching line grep is about to print, <<>> if none
    loop,       \* the variable of the for loop main is in (w, j, a, i or r)
    jobs,       \* worker pool: the channel jobs (capacity numJobs)
    results,    \* worker pool: the channel results (capacity numJobs)
    workers,    \* worker pool: per worker, its position, its variable j and the
                \* lines it has printed (standard output interleaves them)
    collected,  \* worker pool: how often main has received each value from results
    ops,        \* atomic counters: the counter ops
    wg,         \* atomic counters: the WaitGroup's counter
    adders,     \* atomic counters: per goroutine, its position and its variable c
    state,      \* mutexes: the map state
    mutex,      \* mutexes: the mutex is locked
    readOps,    \* mutexes: the counter readOps
    writeOps,   \* mutexes: the counter writeOps
    readers,    \* mutexes: per reading goroutine, its position, key and total
    writers,    \* mutexes: per writing goroutine, its position, key and val
    owner,      \* stateful goroutines: the owning goroutine: its position, its
                \* map state and the readOp or writeOp it is serving
    clients,    \* stateful goroutines: per reading or writing goroutine, its
                \* position and what its resp delivered
    counts,     \* stateful goroutines: the counters readOps and writeOps
    written,    \* stateful goroutines: the writes the owner has processed, in order
    closing,    \* closing channels: the channel jobs, and the worker goroutine's
                \* position and variables j and more
    timeouts,   \* timeouts: which select main is at (round), the channels c1
                \* and c2, their goroutines' positions and the seconds they
                \* still sleep, and the seconds left on time.After's timer
                \* (0 once it has fired, -1 without a timer)
    timers,     \* timers: timer1 and timer2 (the seconds left, -1 when not
                \* running, and the values in the channel C), the goroutine's
                \* position, stop2, and the seconds main still sleeps
    rate,       \* rate limiting: the channels requests, burstyRequests and
                \* burstyLimiter, the two tickers, main's variable req, the
                \* goroutine's position and its variable t, the ticks its
                \* ticker has delivered, and the tokens main has taken from
                \* burstyLimiter
    arrays,     \* arrays: the memory (the array stored at each address) and
                \* the addresses of a, b, twoD and of update's parameter arr
    maps,       \* maps: the maps m and n and the variables v1 and prs
    tests,      \* testing: the arguments a and b of a call of IntMin and its
                \* results, the table row the test loop is at, and the
                \* failures t.Errorf reported
    server,     \* http_server: the routes registered with the default mux,
                \* the address the server listens on, and the requests
                \* served with their responses
    consts,     \* constants: the values of the constants n and d once main
                \* has passed their declarations
    client      \* http_client: resp, the lines of the body not yet read, and
                \* the scanner's error

procVars == <<proc, status, pc, out, defers, panicVal, err, calls>>
closureVars == <<heap, fns, rets>>
sigVars == <<notified, sigs, done, pcG, sig, arrived>>
ctxVars == <<reqs>>
spawnVars == <<gstep, grepIn, grepOut, inBuf, outBuf, toWrite, grepBytes, child, held>>
poolVars == <<jobs, results, workers, collected>>
sysVars == <<f, closureVars, sigVars, ctxVars, spawnVars>>
atomVars == <<ops, wg, adders>>
mutexVars == <<state, mutex, readOps, writeOps, readers, writers>>
ownerVars == <<owner, clients, counts, written>>
moreVars == <<maps, tests, server, consts, client>>
goVars == <<loop, poolVars, atomVars, mutexVars, ownerVars, closing, timeouts, timers, rate,
    arrays, moreVars>>
progVars == <<sysVars, goVars>>
exceptClosures == <<f, sigVars, ctxVars, spawnVars, goVars>>
exceptDefer == <<closureVars, sigVars, ctxVars, spawnVars, goVars>>
exceptSignals == <<f, closureVars, ctxVars, spawnVars, goVars>>
exceptContext == <<f, closureVars, sigVars, spawnVars, goVars>>
exceptSpawn == <<f, closureVars, sigVars, ctxVars, goVars>>
exceptPool == <<sysVars, atomVars, mutexVars, ownerVars, closing, timeouts, timers, rate,
    arrays, moreVars>>
exceptAtomic == <<sysVars, poolVars, mutexVars, ownerVars, closing, timeouts, timers, rate,
    arrays, moreVars>>
exceptMutex == <<sysVars, poolVars, atomVars, ownerVars, closing, timeouts, timers, rate,
    arrays, moreVars>>
exceptStateful == <<sysVars, poolVars, atomVars, mutexVars, closing, timeouts, timers, rate,
    arrays, moreVars>>
exceptClosing == <<sysVars, poolVars, atomVars, mutexVars, ownerVars, timeouts, timers,
                   rate, arrays, moreVars>>
exceptTimeouts == <<sysVars, loop, poolVars, atomVars, mutexVars, ownerVars, closing,
                    timers, rate, arrays, moreVars>>
exceptTimers == <<sysVars, loop, poolVars, atomVars, mutexVars, ownerVars, closing,
                  timeouts, rate, arrays, moreVars>>
exceptRate == <<sysVars, poolVars, atomVars, mutexVars, ownerVars, closing, timeouts,
                timers, arrays, moreVars>>
exceptArrays == <<sysVars, poolVars, atomVars, mutexVars, ownerVars, closing, timeouts,
                  timers, rate, moreVars>>
earlierVars == <<sysVars, loop, poolVars, atomVars, mutexVars, ownerVars, closing, timeouts,
                 timers, rate, arrays>>
exceptMaps == <<earlierVars, tests, server, consts, client>>
exceptTests == <<earlierVars, maps, server, consts, client>>
exceptServer == <<earlierVars, maps, tests, consts, client>>
exceptConsts == <<earlierVars, maps, tests, server, client>>
exceptClient == <<earlierVars, maps, tests, server, consts>>
vars == <<prog, procVars, progVars>>

\* ------------------------------------------------------------------ bounds

MaxClosures == 3    \* intSeq() calls in one run
MaxCalls == 3       \* calls made to one function value
MaxFd == 4          \* os.Create returns a descriptor in 3..MaxFd
MaxSignals == 2     \* signals sent to the process in one run
MaxRequests == 2    \* requests the context server receives in one run
PipeCap == 1        \* lines a pipe holds before a write to it blocks
Goroutines == 3     \* atomic counters: goroutines started (50 in the program)
Increments == 2     \* atomic counters: increments per goroutine (1000 in the program)
Readers == 2        \* mutexes: reading goroutines (100 in the program)
Writers == 1        \* mutexes: writing goroutines (10 in the program)
Keys == 2           \* mutexes: rand.Intn(Keys) picks the key (rand.Intn(5))
Vals == 2           \* mutexes: rand.Intn(Vals) picks the value (rand.Intn(100))
MaxOps == 2         \* mutexes: rounds the goroutines start before the second is over
MaxInt == 2         \* testing: IntMin is called with arguments in -MaxInt..MaxInt
MaxLines == 2       \* http_client: lines in the body of the response
MaxServed == 2      \* http_server: requests the server handles in one run
MaxTicks == 3       \* rate limiting: ticks of the goroutine's ticker in one run

\* ------------------------------------------------------- program constants

ExitCode == 3           \* os.Exit(3)
FatalStatus == 1        \* log.Fatalf: Printf, then os.Exit(1)
PanicStatus == 2        \* an unrecovered panic ends the process with status 2

Programs == {"closures", "exit", "panic", "defer", "exec", "signals", "context", "spawn",
             "pool", "atomic", "mutex", "stateful", "closing",
             "timeouts", "timers", "rate", "arrays", "maps",
             "testing", "server", "constants", "client"}

NoErr == "nil"
GoroutineTrace == "goroutine 1 [running]:"
PanicLine(v) == "panic: " \o v

Call(fn, arg, e) == [fn |-> fn, arg |-> arg, err |-> e]
Returned(fn) == \E k \in 1..Len(calls) : calls[k].fn = fn
Failed(fn) == \E k \in 1..Len(calls) : calls[k].fn = fn /\ calls[k].err # NoErr
Succeeded(fn) == \E k \in 1..Len(calls) : calls[k].fn = fn /\ calls[k].err = NoErr
Printed(line) == \E k \in 1..Len(out) : out[k] = line

\* --------------------------------------------------------------- Go runtime

\* The output of the deferred calls fmt.Println(arg), last deferred first.
RECURSIVE DeferredOutput(_)
DeferredOutput(ds) ==
    IF ds = <<>> THEN <<>>
    ELSE LET d == ds[Len(ds)]
             rest == DeferredOutput(SubSeq(ds, 1, Len(ds) - 1))
         IN  IF d.fn = "Println" THEN <<d.arg>> \o rest ELSE rest

\* A mutant of OsExit: the exit unwinds the stack like a return would.
OsExitRunningDefers(code, o, ds) ==
    /\ proc' = "exited"
    /\ status' = code
    /\ out' = o \o DeferredOutput(ds)
    /\ defers' = <<>>

\* os.Exit(code) after the output o: the process ends at once, and the
\* deferred calls ds stay pending for ever.
OsExit(code, o, ds) ==
    /\ proc' = "exited"
    /\ status' = code
    /\ out' = o
    /\ defers' = ds

\* log.Fatalf(msg): equivalent to Printf() and then os.Exit(1).
LogFatalf(msg, o, ds) == OsExit(FatalStatus, Append(o, msg), ds)

\* panic(v): the goroutine starts unwinding; its deferred calls run before
\* the process dies.
Panic(v, o) ==
    /\ panicVal' = v
    /\ pc' = "panicking"
    /\ out' = o
    /\ UNCHANGED <<proc, status, defers>>

\* log.Panicf(msg) after the output o: equivalent to Printf() and then panic().
LogPanicf(msg, o) == Panic(msg, Append(o, msg))

\* A mutant of closeFile: the error of Close is logged and main goes on.
closeFileLoggingOnly(fd, rest) ==
    \E e \in {NoErr, "close error"} :
        /\ calls' = calls \o <<Call("closeFile", fd, NoErr), Call("Close", fd, e)>>
        /\ out' = IF e # NoErr
                  THEN out \o <<"closing file", "something went wrong while closing file">>
                  ELSE Append(out, "closing file")
        /\ defers' = rest
        /\ UNCHANGED <<proc, status>>

\* closeFile(fd), run as a deferred call with the calls rest still pending:
\* it logs, closes the file and, when Close returns an error, logs that and
\* exits with status 1.
closeFile(fd, rest) ==
    \E e \in {NoErr, "close error"} :
        /\ calls' = calls \o <<Call("closeFile", fd, NoErr), Call("Close", fd, e)>>
        /\ IF e # NoErr
           THEN LogFatalf("something went wrong while closing file",
                          Append(out, "closing file"), rest)
           ELSE /\ out' = Append(out, "closing file")
                /\ defers' = rest
                /\ UNCHANGED <<proc, status>>

\* When main returns or panics, its deferred calls run last-in first-out:
\* closeFile(f) in the defer program, resp.Body.Close() in http_client,
\* fmt.Println(arg) in the exit program.
RunDeferred ==
    /\ proc = "running"
    /\ pc \in {"return", "panicking"}
    /\ defers # <<>>
    /\ LET d == defers[Len(defers)]
           rest == SubSeq(defers, 1, Len(defers) - 1)
       IN  IF d.fn = "closeFile"
           THEN closeFile(d.arg, rest)
           ELSE IF d.fn = "Body.Close"
           THEN /\ calls' = Append(calls, Call("Body.Close", d.arg, NoErr))
                /\ defers' = rest
                /\ UNCHANGED <<proc, status, out>>
           ELSE /\ out' = Append(out, d.arg)
                /\ defers' = rest
                /\ UNCHANGED <<proc, status, calls>>
    /\ UNCHANGED <<prog, pc, panicVal, err, progVars>>

\* main returned and no deferred call is left: the process exits with 0.
MainReturn ==
    /\ proc = "running"
    /\ pc = "return"
    /\ defers = <<>>
    /\ proc' = "exited"
    /\ status' = 0
    /\ UNCHANGED <<prog, pc, out, defers, panicVal, err, calls, progVars>>

\* An unrecovered panic, once the deferred calls have run: the runtime prints
\* the panic value and the goroutine traces and exits with status 2.
PanicCrash ==
    /\ proc = "running"
    /\ pc = "panicking"
    /\ defers = <<>>
    /\ proc' = "exited"
    /\ status' = PanicStatus
    /\ out' = out \o <<PanicLine(panicVal), GoroutineTrace>>
    /\ UNCHANGED <<prog, pc, defers, panicVal, err, calls, progVars>>

\* ---------------------------------------------------------------- closures

\* A mutant of NewCell: every function value shares one variable i.
SharedCell(h) == 1

\* The address of the variable i that one call of intSeq() declares: a fresh
\* cell, which escapes to the heap because the returned function captures it.
NewCell(h) == Len(h) + 1

\* intSeq(): i := 0, and the function value that closes over this i.
intSeq ==
    /\ prog = "closures"
    /\ proc = "running"
    /\ pc = "main"
    /\ Len(fns) < MaxClosures
    /\ heap' = [c \in 1..(Len(heap) + 1) |-> IF c = Len(heap) + 1 THEN 0 ELSE heap[c]]
    /\ fns' = Append(fns, NewCell(heap))
    /\ rets' = Append(rets, <<>>)
    /\ UNCHANGED <<prog, procVars, exceptClosures>>

\* One call of the function value n: i++, return i.
nextInt(n) ==
    /\ prog = "closures"
    /\ proc = "running"
    /\ pc = "main"
    /\ Len(rets[n]) < MaxCalls
    /\ heap' = [heap EXCEPT ![fns[n]] = @ + 1]
    /\ rets' = [rets EXCEPT ![n] = Append(@, heap'[fns[n]])]
    /\ UNCHANGED <<prog, procVars, fns, exceptClosures>>

\* main of closures.go returns after its last call.
closuresDone ==
    /\ prog = "closures"
    /\ proc = "running"
    /\ pc = "main"
    /\ pc' = "return"
    /\ UNCHANGED <<prog, proc, status, out, defers, panicVal, err, calls, progVars>>

\* --------------------------------------------------------------------- exit

\* defer fmt.Println("defer !")
exitDefer ==
    /\ prog = "exit"
    /\ proc = "running"
    /\ pc = "main"
    /\ defers' = Append(defers, [fn |-> "Println", arg |-> "defer !"])
    /\ pc' = "os.Exit"
    /\ UNCHANGED <<prog, proc, status, out, panicVal, err, calls, progVars>>

\* os.Exit(3)
exitOsExit ==
    /\ prog = "exit"
    /\ proc = "running"
    /\ pc = "os.Exit"
    /\ OsExit(ExitCode, out, defers)
    /\ UNCHANGED <<prog, pc, panicVal, err, calls, progVars>>

\* ----------------------------------------------------------------- panic.go

\* _, err := os.Create("/tmp/abc/xyz/file.txt"): fails when the directory
\* does not exist, succeeds when it does.
panicCreate ==
    /\ prog = "panic"
    /\ proc = "running"
    /\ pc = "main"
    /\ \E e \in {NoErr, "no such file or directory"} :
          /\ err' = e
          /\ calls' = Append(calls, Call("os.Create", 0, e))
    /\ pc' = "check"
    /\ UNCHANGED <<prog, proc, status, out, defers, panicVal, progVars>>

\* A mutant of panicCheck: the commented-out log.Panicf(...) in place of
\* log.Fatalf(...).
panicCheckLogPanicf ==
    /\ prog = "panic"
    /\ proc = "running"
    /\ pc = "check"
    /\ IF err # NoErr
       THEN /\ LogPanicf("Something went wrong while creating file", out)
            /\ UNCHANGED <<prog, err, calls, progVars>>
       ELSE /\ pc' = "return"
            /\ UNCHANGED <<prog, proc, status, out, defers, panicVal, err, calls, progVars>>

\* if err != nil { log.Fatalf(...) }
panicCheck ==
    /\ prog = "panic"
    /\ proc = "running"
    /\ pc = "check"
    /\ IF err # NoErr
       THEN /\ LogFatalf("Something went wrong while creating file", out, defers)
            /\ pc' = pc
       ELSE /\ pc' = "return"
            /\ UNCHANGED <<proc, status, out, defers>>
    /\ UNCHANGED <<prog, panicVal, err, calls, progVars>>

\* --------------------------------------------------------- defer (part_004)

\* A mutant of deferCloseFile: closeFile(f) is called where it is written
\* instead of being deferred.
closeFileAtOnce ==
    /\ prog = "defer"
    /\ proc = "running"
    /\ pc = "defer"
    /\ calls' = calls \o <<Call("closeFile", f, NoErr), Call("Close", f, NoErr)>>
    /\ out' = Append(out, "closing file")
    /\ pc' = "writeFile"
    /\ UNCHANGED <<prog, proc, status, defers, panicVal, err, progVars>>

\* f := createFile("/tmp/defer.txt"): logs, creates the file, and panics
\* (log.Panicf) when os.Create returns an error.
createFile ==
    /\ prog = "defer"
    /\ proc = "running"
    /\ pc = "main"
    /\ \/ \E fd \in 3..MaxFd :
            /\ f' = fd
            /\ calls' = calls \o <<Call("createFile", fd, NoErr), Call("os.Create", fd, NoErr)>>
            /\ out' = Append(out, "creating file")
            /\ pc' = "defer"
            /\ UNCHANGED <<proc, status, defers, panicVal>>
       \/ /\ calls' = calls \o <<Call("createFile", 0, NoErr), Call("os.Create", 0, "create error")>>
          /\ LogPanicf("Something went wrong while creating file",
                       Append(out, "creating file"))
          /\ f' = f
    /\ UNCHANGED <<prog, err, exceptDefer>>

\* defer closeFile(f): the call and its argument, evaluated now, are pushed
\* on the stack of deferred calls.
deferCloseFile ==
    /\ prog = "defer"
    /\ proc = "running"
    /\ pc = "defer"
    /\ defers' = Append(defers, [fn |-> "closeFile", arg |-> f])
    /\ pc' = "writeFile"
    /\ UNCHANGED <<prog, proc, status, out, panicVal, err, calls, progVars>>

\* writeFile(f): logs and writes "data"; the error of fmt.Fprintln is
\* dropped.  main returns after it.
writeFile ==
    /\ prog = "defer"
    /\ proc = "running"
    /\ pc = "writeFile"
    /\ \E e \in {NoErr, "write error"} :
          calls' = calls \o <<Call("writeFile", f, NoErr), Call("Fprintln", f, e)>>
    /\ out' = Append(out, "writing data to file")
    /\ pc' = "return"
    /\ UNCHANGED <<prog, proc, status, defers, panicVal, err, progVars>>

\* ------------------------------------------------------------- exec_process

\* A mutant of syscallExec: a successful Exec returns nil, as spawning a
\* child would, and main goes on.
syscallExecReturning ==
    /\ prog = "exec"
    /\ proc = "running"
    /\ pc = "Exec"
    /\ \E e \in {NoErr, "exec error"} :
          /\ calls' = Append(calls, Call("Exec", 0, e))
          /\ err' = e
    /\ pc' = "checkExec"
    /\ UNCHANGED <<prog, proc, status, out, defers, panicVal, progVars>>

\* binary, lookErr := exec.LookPath("ls")
lookPath ==
    /\ prog = "exec"
    /\ proc = "running"
    /\ pc = "main"
    /\ \E e \in {NoErr, "executable file not found in $PATH"} :
          /\ calls' = Append(calls, Call("LookPath", 0, e))
          /\ err' = e
    /\ pc' = "checkLook"
    /\ UNCHANGED <<prog, proc, status, out, defers, panicVal, progVars>>

\* A mutant of checkLookErr: lookErr is not tested.
lookErrIgnored ==
    /\ prog = "exec"
    /\ proc = "running"
    /\ pc = "checkLook"
    /\ pc' = "Exec"
    /\ UNCHANGED <<prog, proc, status, out, defers, panicVal, err, calls, progVars>>

\* if lookErr != nil { panic(lookErr) }
checkLookErr ==
    /\ prog = "exec"
    /\ proc = "running"
    /\ pc = "checkLook"
    /\ IF err # NoErr
       THEN Panic(err, out)
       ELSE /\ pc' = "Exec"
            /\ UNCHANGED <<proc, status, out, defers, panicVal>>
    /\ UNCHANGED <<prog, err, calls, progVars>>

\* execErr := syscall.Exec(binary, args, env): on success the process image
\* is replaced by ls and the call never returns; on failure it returns the
\* error.
syscallExec ==
    /\ prog = "exec"
    /\ proc = "running"
    /\ pc = "Exec"
    /\ \/ /\ calls' = Append(calls, Call("Exec", 0, NoErr))
          /\ proc' = "replaced"
          /\ UNCHANGED <<pc, err>>
       \/ /\ calls' = Append(calls, Call("Exec", 0, "exec error"))
          /\ err' = "exec error"
          /\ pc' = "checkExec"
          /\ proc' = proc
    /\ UNCHANGED <<prog, status, out, defers, panicVal, progVars>>

\* if execErr != nil { panic(execErr) }
checkExecErr ==
    /\ prog = "exec"
    /\ proc = "running"
    /\ pc = "checkExec"
    /\ IF err # NoErr
       THEN Panic(err, out)
       ELSE /\ pc' = "return"
            /\ UNCHANGED <<proc, status, out, defers, panicVal>>
    /\ UNCHANGED <<prog, err, calls, progVars>>

\* ------------------------------------------------------- signals (part_003)

ChanCap == 1            \* make(chan os.Signal, 1), make(chan bool, 1)

Signals == {"SIGINT", "SIGTERM"}

\* Signal.String(), which fmt.Println(sig) prints.
SignalName(s) == IF s = "SIGINT" THEN "interrupt" ELSE "terminated"

\* sigs and done are made; signal.Notify(sigs, SIGINT, SIGTERM).
sigNotify ==
    /\ prog = "signals"
    /\ proc = "running"
    /\ pc = "main"
    /\ notified' = TRUE
    /\ pc' = "go"
    /\ UNCHANGED <<prog, proc, status, out, defers, panicVal, err, calls,
                   sigs, done, pcG, sig, arrived, exceptSignals>>

\* go func() { ... }()
sigGo ==
    /\ prog = "signals"
    /\ proc = "running"
    /\ pc = "go"
    /\ pcG' = "recv"
    /\ pc' = "awaiting"
    /\ UNCHANGED <<prog, proc, status, out, defers, panicVal, err, calls,
                   notified, sigs, done, sig, arrived, exceptSignals>>

\* fmt.Println("awaiting signal")
sigAwaiting ==
    /\ prog = "signals"
    /\ proc = "running"
    /\ pc = "awaiting"
    /\ out' = Append(out, "awaiting signal")
    /\ pc' = "recvDone"
    /\ UNCHANGED <<prog, proc, status, defers, panicVal, err, calls, progVars>>

\* A mutant of sigRecvDone: main does not wait for a value on done.
sigRecvDoneNoWait ==
    /\ prog = "signals"
    /\ proc = "running"
    /\ pc = "recvDone"
    /\ pc' = "exiting"
    /\ UNCHANGED <<prog, proc, status, out, defers, panicVal, err, calls, progVars>>

\* <-done: blocks until done holds a value.
sigRecvDone ==
    /\ prog = "signals"
    /\ proc = "running"
    /\ pc = "recvDone"
    /\ done # <<>>
    /\ done' = Tail(done)
    /\ pc' = "exiting"
    /\ UNCHANGED <<prog, proc, status, out, defers, panicVal, err, calls,
                   notified, sigs, pcG, sig, arrived, exceptSignals>>

\* fmt.Println("exiting"); main returns.
sigExiting ==
    /\ prog = "signals"
    /\ proc = "running"
    /\ pc = "exiting"
    /\ out' = Append(out, "exiting")
    /\ pc' = "return"
    /\ UNCHANGED <<prog, proc, status, defers, panicVal, err, calls, progVars>>

\* sig := <-sigs: blocks until sigs holds a signal.
gRecv ==
    /\ prog = "signals"
    /\ proc = "running"
    /\ pcG = "recv"
    /\ sigs # <<>>
    /\ sig' = Head(sigs)
    /\ sigs' = Tail(sigs)
    /\ pcG' = "println"
    /\ UNCHANGED <<prog, procVars, notified, done, arrived, exceptSignals>>

\* fmt.Println()
gPrintln ==
    /\ prog = "signals"
    /\ proc = "running"
    /\ pcG = "println"
    /\ out' = Append(out, "")
    /\ pcG' = "printSig"
    /\ UNCHANGED <<prog, proc, status, pc, defers, panicVal, err, calls,
                   notified, sigs, done, sig, arrived, exceptSignals>>

\* fmt.Println(sig)
gPrintSig ==
    /\ prog = "signals"
    /\ proc = "running"
    /\ pcG = "printSig"
    /\ out' = Append(out, SignalName(sig))
    /\ pcG' = "send"
    /\ UNCHANGED <<prog, proc, status, pc, defers, panicVal, err, calls,
                   notified, sigs, done, sig, arrived, exceptSignals>>

\* A mutant of gSend: the goroutine ends without notifying main.
gEndWithoutSend ==
    /\ prog = "signals"
    /\ proc = "running"
    /\ pcG = "send"
    /\ pcG' = "end"
    /\ UNCHANGED <<prog, procVars, notified, sigs, done, sig, arrived, exceptSignals>>

\* done <- true: blocks while done is full.
gSend ==
    /\ prog = "signals"
    /\ proc = "running"
    /\ pcG = "send"
    /\ Len(done) < ChanCap
    /\ done' = Append(done, TRUE)
    /\ pcG' = "end"
    /\ UNCHANGED <<prog, procVars, notified, sigs, sig, arrived, exceptSignals>>

\* A mutant of SignalArrives: sigs made without a buffer, so that the relay
\* hands a signal over only while the goroutine is receiving.
SignalArrivesUnbuffered(s) ==
    /\ prog = "signals"
    /\ proc = "running"
    /\ arrived < MaxSignals
    /\ arrived' = arrived + 1
    /\ IF notified
       THEN /\ sigs' = IF pcG = "recv" /\ sigs = <<>> THEN <<s>> ELSE sigs
            /\ proc' = proc
       ELSE /\ proc' = "killed"
            /\ sigs' = sigs
    /\ UNCHANGED <<prog, status, pc, out, defers, panicVal, err, calls,
                   notified, done, pcG, sig, exceptSignals>>

\* The environment sends SIGINT or SIGTERM to the process.  Once Notify has
\* registered sigs the signal package relays it with a send that does not
\* block (the signal is dropped when sigs is full); before that the default
\* disposition applies and the signal ends the process.
SignalArrives(s) ==
    /\ prog = "signals"
    /\ proc = "running"
    /\ arrived < MaxSignals
    /\ arrived' = arrived + 1
    /\ IF notified
       THEN /\ sigs' = IF Len(sigs) < ChanCap THEN Append(sigs, s) ELSE sigs
            /\ proc' = proc
       ELSE /\ proc' = "killed"
            /\ sigs' = sigs
    /\ UNCHANGED <<prog, status, pc, out, defers, panicVal, err, calls,
                   notified, done, pcG, sig, exceptSignals>>

\* ------------------------------------------------------- context (part_000)

TimerSeconds == 10              \* time.After(10 * time.Second)
StatusOK == 200                 \* the status of a reply written without WriteHeader
StatusInternalServerError == 500    \* http.StatusInternalServerError

\* error.Error() of the values ctx.Err() returns.
ErrorText(e) ==
    IF e = "Canceled" THEN "context canceled" ELSE "context deadline exceeded"

\* A request that has not arrived.  timer is the time left on the channel of
\* time.After, 0 once it has fired and -1 while the handler holds no timer;
\* fired and first record whether the timer fired and which came first, the
\* timer or the cancellation.
IdleRequest ==
    [pc |-> "idle", timer |-> -1, ctxErr |-> NoErr, code |-> 0, body |-> <<>>,
     log |-> <<>>, deferred |-> <<>>, fired |-> FALSE, first |-> "none"]

\* http.HandleFunc("/hello", hello)
ctxHandleFunc ==
    /\ prog = "context"
    /\ proc = "running"
    /\ pc = "main"
    /\ pc' = "listen"
    /\ UNCHANGED <<prog, proc, status, out, defers, panicVal, err, calls, progVars>>

\* http.ListenAndServe(":8090", nil): serves until it fails; the error it
\* returns (at once when the port cannot be bound) is dropped and main
\* returns.
ctxListenAndServe ==
    /\ prog = "context"
    /\ proc = "running"
    /\ pc = "listen"
    /\ \/ /\ pc' = "serving"
          /\ calls' = calls
       \/ /\ pc' = "return"
          /\ calls' = Append(calls, Call("ListenAndServe", 0, "address already in use"))
    /\ UNCHANGED <<prog, proc, status, out, defers, panicVal, err, progVars>>

\* A client's request for /hello arrives and net/http starts a goroutine
\* that calls hello with the request, whose context is not done.
Request(r) ==
    /\ prog = "context"
    /\ proc = "running"
    /\ pc = "serving"
    /\ reqs[r].pc = "idle"
    /\ \A q \in 1..(r - 1) : reqs[q].pc # "idle"
    /\ reqs' = [reqs EXCEPT ![r].pc = "start"]
    /\ UNCHANGED <<prog, procVars, exceptContext>>

\* ctx := req.Context(); log.Println("... started"); defer log.Println("... ended")
helloStart(r) ==
    /\ prog = "context"
    /\ proc = "running"
    /\ reqs[r].pc = "start"
    /\ reqs' = [reqs EXCEPT ![r].pc = "select",
                            ![r].log = Append(@, "server: hello handler started"),
                            ![r].deferred = Append(@, "server: hello handler ended")]
    /\ UNCHANGED <<prog, procVars, exceptContext>>

\* select: the operands are evaluated, time.After(10 * time.Second) starts
\* the timer.
helloSelect(r) ==
    /\ prog = "context"
    /\ proc = "running"
    /\ reqs[r].pc = "select"
    /\ reqs' = [reqs EXCEPT ![r].pc = "poll", ![r].timer = TimerSeconds]
    /\ UNCHANGED <<prog, procVars, exceptContext>>

\* select: a case that can proceed is chosen, any of them when both can;
\* when none can the goroutine parks until the timer or ctx.Done() wakes it.
helloPoll(r) ==
    /\ prog = "context"
    /\ proc = "running"
    /\ reqs[r].pc = "poll"
    /\ \/ /\ reqs[r].timer = 0
          /\ reqs' = [reqs EXCEPT ![r].pc = "hello", ![r].timer = -1]
       \/ /\ reqs[r].ctxErr # NoErr
          /\ reqs' = [reqs EXCEPT ![r].pc = "error", ![r].timer = -1]
       \/ /\ reqs[r].timer > 0
          /\ reqs[r].ctxErr = NoErr
          /\ reqs' = [reqs EXCEPT ![r].pc = "parked"]
    /\ UNCHANGED <<prog, procVars, exceptContext>>

\* A mutant of helloReply: control falls through to the next case.
helloReplyFallingThrough(r) ==
    /\ prog = "context"
    /\ proc = "running"
    /\ reqs[r].pc = "hello"
    /\ reqs' = [reqs EXCEPT ![r].pc = "error",
                            ![r].code = StatusOK,
                            ![r].body = Append(@, "hello")]
    /\ UNCHANGED <<prog, procVars, exceptContext>>

\* case <-time.After(...): fmt.Fprintf(w, "hello\n")
helloReply(r) ==
    /\ prog = "context"
    /\ proc = "running"
    /\ reqs[r].pc = "hello"
    /\ reqs' = [reqs EXCEPT ![r].pc = "defer",
                            ![r].code = StatusOK,
                            ![r].body = Append(@, "hello")]
    /\ UNCHANGED <<prog, procVars, exceptContext>>

\* A mutant of helloError: the reply carries the status text, not the error.
helloErrorStatusText(r) ==
    /\ prog = "context"
    /\ proc = "running"
    /\ reqs[r].pc = "error"
    /\ reqs' = [reqs EXCEPT ![r].pc = "defer",
                            ![r].log = Append(@, "server: " \o ErrorText(reqs[r].ctxErr)),
                            ![r].code = StatusInternalServerError,
                            ![r].body = Append(@, "Internal Server Error")]
    /\ UNCHANGED <<prog, procVars, exceptContext>>

\* case <-ctx.Done(): err := ctx.Err(); fmt.Println("server:", err);
\* http.Error(w, err.Error(), http.StatusInternalServerError)
helloError(r) ==
    /\ prog = "context"
    /\ proc = "running"
    /\ reqs[r].pc = "error"
    /\ reqs' = [reqs EXCEPT ![r].pc = "defer",
                            ![r].log = Append(@, "server: " \o ErrorText(reqs[r].ctxErr)),
                            ![r].code = StatusInternalServerError,
                            ![r].body = Append(@, ErrorText(reqs[r].ctxErr))]
    /\ UNCHANGED <<prog, procVars, exceptContext>>

\* hello returns: the deferred log.Println("server: hello handler ended") runs.
helloEnd(r) ==
    /\ prog = "context"
    /\ proc = "running"
    /\ reqs[r].pc = "defer"
    /\ reqs' = [reqs EXCEPT ![r].pc = "done",
                            ![r].log = @ \o reqs[r].deferred,
                            ![r].deferred = <<>>]
    /\ UNCHANGED <<prog, procVars, exceptContext>>

\* The client goes away: net/http cancels the request's context, which
\* closes ctx.Done(); a handler parked in the select wakes with that case.
Cancel(r) ==
    /\ prog = "context"
    /\ proc = "running"
    /\ reqs[r].pc \notin {"idle", "done"}
    /\ reqs[r].ctxErr = NoErr
    /\ reqs' = [reqs EXCEPT
                  ![r].ctxErr = "Canceled",
                  ![r].first = IF @ = "none" THEN "cancel" ELSE @,
                  ![r].pc = IF @ = "parked" THEN "error" ELSE @,
                  ![r].timer = IF reqs[r].pc = "parked" THEN -1 ELSE @]
    /\ UNCHANGED <<prog, procVars, exceptContext>>

\* A second passes: every running timer counts down; one that reaches 0
\* fires, and a handler parked in the select wakes with the timer's case.
Tick ==
    /\ prog = "context"
    /\ proc = "running"
    /\ \E r \in 1..MaxRequests : reqs[r].timer > 0
    /\ reqs' = [r \in 1..MaxRequests |->
                  IF reqs[r].timer > 1
                  THEN [reqs[r] EXCEPT !.timer = @ - 1]
                  ELSE IF reqs[r].timer = 1
                  THEN [reqs[r] EXCEPT
                          !.fired = TRUE,
                          !.first = IF @ = "none" THEN "timer" ELSE @,
                          !.pc = IF @ = "parked" THEN "hello" ELSE @,
                          !.timer = IF reqs[r].pc = "parked" THEN -1 ELSE 0]
                  ELSE reqs[r]]
    /\ UNCHANGED <<prog, procVars, exceptContext>>

\* ---------------------------------------------------------- spawing_process

\* grepIn.Write([]byte("hello grep\ngoodbye grep")): the lines, as words.
GrepInput == <<<<"hello", "grep">>, <<"goodbye", "grep">>>>

\* grep hello selects the lines that contain hello.
Matches(line) == \E k \in 1..Len(line) : line[k] = "hello"

NilDereference == "runtime error: invalid memory address or nil pointer dereference"

\* A mutant of GrepExchange: stdout is read before stdin is closed.
GrepExchangeReadFirst ==
    <<"StdinPipe", "StdoutPipe", "Start", "Write", "ReadAll", "Close", "Wait", "Println">>

\* The statements of the grep exchange, in program order.
GrepExchange ==
    <<"StdinPipe", "StdoutPipe", "Start", "Write", "Close", "ReadAll", "Wait", "Println">>

AtGrep(stmt) ==
    /\ prog = "spawn"
    /\ proc = "running"
    /\ pc = "grep"
    /\ GrepExchange[gstep] = stmt

\* dateOut, err := dateCmd.Output()
dateOutput ==
    /\ prog = "spawn"
    /\ proc = "running"
    /\ pc = "main"
    /\ \E e \in {NoErr, "exit status 1"} :
          /\ err' = e
          /\ calls' = Append(calls, Call("date.Output", 0, e))
    /\ pc' = "checkDate"
    /\ UNCHANGED <<prog, proc, status, out, defers, panicVal, progVars>>

\* if err != nil { panic(err) }; the date is printed.
checkDateErr ==
    /\ prog = "spawn"
    /\ proc = "running"
    /\ pc = "checkDate"
    /\ IF err # NoErr
       THEN Panic(err, out)
       ELSE /\ out' = out \o <<"> date", "date">>
            /\ pc' = "grep"
            /\ UNCHANGED <<proc, status, defers, panicVal>>
    /\ UNCHANGED <<prog, err, calls, progVars>>

\* grepIn, _ := grepCmd.StdinPipe(): nil when the pipe cannot be made.
grepStdinPipe ==
    /\ AtGrep("StdinPipe")
    /\ \E e \in {NoErr, "too many open files"} :
          /\ grepIn' = IF e = NoErr THEN "open" ELSE "nil"
          /\ calls' = Append(calls, Call("StdinPipe", 0, e))
    /\ gstep' = gstep + 1
    /\ UNCHANGED <<prog, proc, status, pc, out, defers, panicVal, err,
                   grepOut, inBuf, outBuf, toWrite, grepBytes, child, held, exceptSpawn>>

\* grepOut, _ := grepCmd.StdoutPipe(): nil when the pipe cannot be made.
grepStdoutPipe ==
    /\ AtGrep("StdoutPipe")
    /\ \E e \in {NoErr, "too many open files"} :
          /\ grepOut' = IF e = NoErr THEN "open" ELSE "nil"
          /\ calls' = Append(calls, Call("StdoutPipe", 0, e))
    /\ gstep' = gstep + 1
    /\ UNCHANGED <<prog, proc, status, pc, out, defers, panicVal, err,
                   grepIn, inBuf, outBuf, toWrite, grepBytes, child, held, exceptSpawn>>

\* grepCmd.Start(): grep runs; when it cannot be started the pipes are
\* closed.  The error is dropped.
grepStart ==
    /\ AtGrep("Start")
    /\ \/ /\ child' = "running"
          /\ calls' = Append(calls, Call("Start", 0, NoErr))
          /\ UNCHANGED <<grepIn, grepOut>>
       \/ /\ child' = "notstarted"
          /\ calls' = Append(calls, Call("Start", 0, "executable file not found in $PATH"))
          /\ grepIn' = IF grepIn = "open" THEN "closed" ELSE grepIn
          /\ grepOut' = IF grepOut = "open" THEN "closed" ELSE grepOut
    /\ gstep' = gstep + 1
    /\ UNCHANGED <<prog, proc, status, pc, out, defers, panicVal, err,
                   inBuf, outBuf, toWrite, grepBytes, held, exceptSpawn>>

\* grepIn.Write(...): panics on the nil grepIn, fails on a closed pipe, and
\* else writes line after line, each when the pipe has room, and returns
\* when all is written.
grepInWrite ==
    /\ AtGrep("Write")
    /\ IF grepIn = "nil"
       THEN /\ Panic(NilDereference, out)
            /\ UNCHANGED <<calls, gstep, inBuf, toWrite>>
       ELSE IF grepIn = "closed"
       THEN /\ calls' = Append(calls, Call("Write", 0, "file already closed"))
            /\ gstep' = gstep + 1
            /\ UNCHANGED <<proc, status, pc, out, defers, panicVal, inBuf, toWrite>>
       ELSE LET rest == IF toWrite = <<>> THEN GrepInput ELSE toWrite
            IN  /\ Len(inBuf) < PipeCap
                /\ inBuf' = Append(inBuf, Head(rest))
                /\ IF Tail(rest) = <<>>
                   THEN /\ toWrite' = <<>>
                        /\ calls' = Append(calls, Call("Write", 0, NoErr))
                        /\ gstep' = gstep + 1
                   ELSE /\ toWrite' = Tail(rest)
                        /\ UNCHANGED <<calls, gstep>>
                /\ UNCHANGED <<proc, status, pc, out, defers, panicVal>>
    /\ UNCHANGED <<prog, err, grepIn, grepOut, outBuf, grepBytes, child, held, exceptSpawn>>

\* grepIn.Close(): grep's stdin is at its end once the pipe is drained.
grepInClose ==
    /\ AtGrep("Close")
    /\ IF grepIn = "nil"
       THEN /\ Panic(NilDereference, out)
            /\ UNCHANGED <<calls, gstep, grepIn>>
       ELSE /\ calls' = Append(calls, Call("grepIn.Close", 0,
                               IF grepIn = "closed" THEN "file already closed" ELSE NoErr))
            /\ grepIn' = "closed"
            /\ gstep' = gstep + 1
            /\ UNCHANGED <<proc, status, pc, out, defers, panicVal>>
    /\ UNCHANGED <<prog, err, grepOut, inBuf, outBuf, toWrite, grepBytes, child, held,
                   exceptSpawn>>

\* grepBytes, _ := ioutil.ReadAll(grepOut): panics on the nil grepOut, fails
\* on a closed pipe, and else reads what the pipe holds until its end, which
\* comes when grep has exited.
readAll ==
    /\ AtGrep("ReadAll")
    /\ IF grepOut = "nil"
       THEN /\ Panic(NilDereference, out)
            /\ UNCHANGED <<calls, gstep, outBuf, grepBytes>>
       ELSE IF grepOut = "closed"
       THEN /\ calls' = Append(calls, Call("ReadAll", 0, "file already closed"))
            /\ gstep' = gstep + 1
            /\ UNCHANGED <<proc, status, pc, out, defers, panicVal, outBuf, grepBytes>>
       ELSE /\ \/ /\ outBuf # <<>>
                  /\ grepBytes' = Append(grepBytes, Head(outBuf))
                  /\ outBuf' = Tail(outBuf)
                  /\ UNCHANGED <<calls, gstep>>
               \/ /\ outBuf = <<>>
                  /\ child = "exited"
                  /\ calls' = Append(calls, Call("ReadAll", 0, NoErr))
                  /\ gstep' = gstep + 1
                  /\ UNCHANGED <<outBuf, grepBytes>>
            /\ UNCHANGED <<proc, status, pc, out, defers, panicVal>>
    /\ UNCHANGED <<prog, err, grepIn, grepOut, inBuf, toWrite, child, held, exceptSpawn>>

\* grepCmd.Wait(): fails at once when grep was not started, and else blocks
\* until grep has exited and closes the pipes.  The error is dropped.
grepWait ==
    /\ AtGrep("Wait")
    /\ \/ /\ child = "notstarted"
          /\ calls' = Append(calls, Call("Wait", 0, "exec: not started"))
          /\ UNCHANGED <<grepIn, grepOut>>
       \/ /\ child = "exited"
          /\ calls' = Append(calls, Call("Wait", 0, NoErr))
          /\ grepIn' = IF grepIn = "open" THEN "closed" ELSE grepIn
          /\ grepOut' = IF grepOut = "open" THEN "closed" ELSE grepOut
    /\ gstep' = gstep + 1
    /\ UNCHANGED <<prog, proc, status, pc, out, defers, panicVal, err,
                   inBuf, outBuf, toWrite, grepBytes, child, held, exceptSpawn>>

\* fmt.Println("> grep hello"); fmt.Println(string(grepBytes))
printGrep ==
    /\ AtGrep("Println")
    /\ out' = out \o <<"> grep hello">> \o [k \in 1..Len(grepBytes) |-> grepBytes[k][1]]
    /\ pc' = "ls"
    /\ UNCHANGED <<prog, proc, status, defers, panicVal, err, calls, progVars>>

\* lsOut, err := lsCmd.Output()
lsOutput ==
    /\ prog = "spawn"
    /\ proc = "running"
    /\ pc = "ls"
    /\ \E e \in {NoErr, "exit status 2"} :
          /\ err' = e
          /\ calls' = Append(calls, Call("ls.Output", 0, e))
    /\ pc' = "checkLs"
    /\ UNCHANGED <<prog, proc, status, out, defers, panicVal, progVars>>

\* if err != nil { panic(err) }; the listing is printed and main returns.
checkLsErr ==
    /\ prog = "spawn"
    /\ proc = "running"
    /\ pc = "checkLs"
    /\ IF err # NoErr
       THEN Panic(err, out)
       ELSE /\ out' = out \o <<"> ls -a -l -h", "listing">>
            /\ pc' = "return"
            /\ UNCHANGED <<proc, status, defers, panicVal>>
    /\ UNCHANGED <<prog, err, calls, progVars>>

\* grep reads its next line: from the pipe when it holds one, and gets the
\* end of its input when the pipe is drained and closed, or when it was
\* given no pipe; then it exits.
grepReadLine ==
    /\ prog = "spawn"
    /\ child = "running"
    /\ held = <<>>
    /\ \/ /\ inBuf # <<>>
          /\ inBuf' = Tail(inBuf)
          /\ held' = IF Matches(Head(inBuf)) THEN Head(inBuf) ELSE <<>>
          /\ child' = child
       \/ /\ inBuf = <<>>
          /\ grepIn \in {"nil", "closed"}
          /\ child' = "exited"
          /\ UNCHANGED <<inBuf, held>>
    /\ UNCHANGED <<prog, procVars, gstep, grepIn, grepOut, outBuf, toWrite, grepBytes,
                   exceptSpawn>>

\* grep prints the matching line: into the pipe when it has room (or away,
\* when grep was given no pipe).
grepPrintLine ==
    /\ prog = "spawn"
    /\ child = "running"
    /\ held # <<>>
    /\ IF grepOut = "nil"
       THEN outBuf' = outBuf
       ELSE /\ Len(outBuf) < PipeCap
            /\ outBuf' = Append(outBuf, held)
    /\ held' = <<>>
    /\ UNCHANGED <<prog, procVars, gstep, grepIn, grepOut, inBuf, toWrite, grepBytes,
                   child, exceptSpawn>>

\* ----------------------------------------------------------------- channels

\* make(chan T, n): an open channel with nothing in its buffer.
MakeChan == [buf |-> <<>>, closed |-> FALSE]

\* ch <- v can proceed on a channel of capacity n when the buffer has room.
CanSend(ch, n) == Len(ch.buf) < n

\* A mutant of Close: closing the channel discards what is in its buffer.
CloseDropping(ch) == [buf |-> <<>>, closed |-> TRUE]

\* ch <- v and close(ch) on an open buffered channel.
Send(ch, v) == [ch EXCEPT !.buf = Append(@, v)]
Close(ch) == [ch EXCEPT !.closed = TRUE]

\* A mutant of Recv: the receive leaves the value in the channel.
RecvLeaving(ch) == ch

\* <-ch can proceed when the buffer holds a value or the channel is closed;
\* on a closed and drained channel it returns the zero value and more = false.
CanRecv(ch) == ch.buf # <<>> \/ ch.closed
More(ch) == ch.buf # <<>>
Recv(ch) == [ch EXCEPT !.buf = IF @ = <<>> THEN @ ELSE Tail(@)]

\* -------------------------------------------------------------- worker pool

NumWorkers == 3     \* for w := 1; w <= 3; w++
numJobs == 3         \* jobs main sends in one run (const numJobs = 5 in the program)

\* for w := 1; w <= 3; w++ { go worker(w, jobs, results) }
poolGo ==
    /\ prog = "pool"
    /\ proc = "running"
    /\ pc = "main"
    /\ loop <= NumWorkers
    /\ workers' = [workers EXCEPT ![loop].pc = "range"]
    /\ loop' = loop + 1
    /\ pc' = IF loop = NumWorkers THEN "send" ELSE pc
    /\ UNCHANGED <<prog, proc, status, out, defers, panicVal, err, calls,
                   jobs, results, collected, exceptPool>>

\* for j := 1; j <= numJobs; j++ { jobs <- j }
poolSend ==
    /\ prog = "pool"
    /\ proc = "running"
    /\ pc = "send"
    /\ LET j == loop - NumWorkers
       IN  /\ j <= numJobs
           /\ CanSend(jobs, numJobs)
           /\ jobs' = Send(jobs, j)
    /\ loop' = loop + 1
    /\ UNCHANGED <<prog, proc, status, pc, out, defers, panicVal, err, calls,
                   results, workers, collected, exceptPool>>

\* close(jobs), once the loop has sent every job.
poolClose ==
    /\ prog = "pool"
    /\ proc = "running"
    /\ pc = "send"
    /\ loop - NumWorkers > numJobs
    /\ jobs' = Close(jobs)
    /\ pc' = "collect"
    /\ loop' = 1
    /\ UNCHANGED <<prog, proc, status, out, defers, panicVal, err, calls,
                   results, workers, collected, exceptPool>>

\* for a := 1; a <= numJobs; a++ { <-results }
poolCollect ==
    /\ prog = "pool"
    /\ proc = "running"
    /\ pc = "collect"
    /\ loop <= numJobs
    /\ CanRecv(results)
    /\ LET v == IF More(results) THEN Head(results.buf) ELSE 0
       IN  collected' = [u \in DOMAIN collected \cup {v} |->
                           IF u = v
                           THEN (IF u \in DOMAIN collected THEN collected[u] ELSE 0) + 1
                           ELSE collected[u]]
    /\ results' = Recv(results)
    /\ loop' = loop + 1
    /\ UNCHANGED <<prog, proc, status, pc, out, defers, panicVal, err, calls,
                   jobs, workers, exceptPool>>

\* The collecting loop is over: main returns.
poolEnd ==
    /\ prog = "pool"
    /\ proc = "running"
    /\ pc = "collect"
    /\ loop > numJobs
    /\ pc' = "return"
    /\ UNCHANGED <<prog, proc, status, out, defers, panicVal, err, calls,
                   loop, poolVars, exceptPool>>

\* for j := range jobs: the worker takes the next job, or leaves the loop and
\* returns when jobs is closed and drained.
workerRange(w) ==
    /\ prog = "pool"
    /\ proc = "running"
    /\ workers[w].pc = "range"
    /\ CanRecv(jobs)
    /\ workers' = [workers EXCEPT
                     ![w].pc = IF More(jobs) THEN "started" ELSE "done",
                     ![w].j = IF More(jobs) THEN Head(jobs.buf) ELSE @]
    /\ jobs' = Recv(jobs)
    /\ UNCHANGED <<prog, procVars, loop, results, collected, exceptPool>>

\* fmt.Println("worker", id, "started  job", j); time.Sleep(time.Second)
workerStarted(w) ==
    /\ prog = "pool"
    /\ proc = "running"
    /\ workers[w].pc = "started"
    /\ workers' = [workers EXCEPT
                     ![w].pc = "finished",
                     ![w].log = Append(@, <<"started  job", workers[w].j>>)]
    /\ UNCHANGED <<prog, procVars, loop, jobs, results, collected, exceptPool>>

\* The second is over: fmt.Println("worker", id, "finished job", j)
workerFinished(w) ==
    /\ prog = "pool"
    /\ proc = "running"
    /\ workers[w].pc = "finished"
    /\ workers' = [workers EXCEPT
                     ![w].pc = "send",
                     ![w].log = Append(@, <<"finished job", workers[w].j>>)]
    /\ UNCHANGED <<prog, procVars, loop, jobs, results, collected, exceptPool>>

\* A mutant of workerSend: the worker sends its result and stays where it is.
workerSendStaying(w) ==
    /\ prog = "pool"
    /\ proc = "running"
    /\ workers[w].pc = "send"
    /\ CanSend(results, numJobs)
    /\ results' = Send(results, workers[w].j * 2)
    /\ UNCHANGED <<prog, procVars, loop, jobs, workers, collected, exceptPool>>

\* results <- j * 2, and back to the head of the loop.
workerSend(w) ==
    /\ prog = "pool"
    /\ proc = "running"
    /\ workers[w].pc = "send"
    /\ CanSend(results, numJobs)
    /\ results' = Send(results, workers[w].j * 2)
    /\ workers' = [workers EXCEPT ![w].pc = "range"]
    /\ UNCHANGED <<prog, procVars, loop, jobs, collected, exceptPool>>


\* ---------------------------------------------------------- atomic counters

\* A mutant of atomicAdd: ops++, a read and a write that are not one step, so
\* that the write may build on a value of ops read before others' writes.
opsPlusPlus(g) ==
    /\ prog = "atomic"
    /\ proc = "running"
    /\ adders[g].pc = "loop"
    /\ adders[g].c < Increments
    /\ \E v \in 0..ops : ops' = v + 1
    /\ adders' = [adders EXCEPT ![g].c = @ + 1]
    /\ UNCHANGED <<prog, procVars, loop, wg, exceptAtomic>>

\* for i := 0; i < 50; i++ { wg.Add(1); go func() {...}() }
atomicGo ==
    /\ prog = "atomic"
    /\ proc = "running"
    /\ pc = "main"
    /\ loop <= Goroutines
    /\ wg' = wg + 1
    /\ adders' = [adders EXCEPT ![loop].pc = "loop"]
    /\ loop' = loop + 1
    /\ pc' = IF loop = Goroutines THEN "wait" ELSE pc
    /\ UNCHANGED <<prog, proc, status, out, defers, panicVal, err, calls,
                   ops, exceptAtomic>>

\* for c := 0; c < 1000; c++ { atomic.AddUint64(&ops, 1) }: one increment,
\* read and write in a single step.
atomicAdd(g) ==
    /\ prog = "atomic"
    /\ proc = "running"
    /\ adders[g].pc = "loop"
    /\ adders[g].c < Increments
    /\ ops' = ops + 1
    /\ adders' = [adders EXCEPT ![g].c = @ + 1]
    /\ UNCHANGED <<prog, procVars, loop, wg, exceptAtomic>>

\* wg.Done(), once the loop is over; the goroutine ends.
atomicDone(g) ==
    /\ prog = "atomic"
    /\ proc = "running"
    /\ adders[g].pc = "loop"
    /\ adders[g].c >= Increments
    /\ wg' = wg - 1
    /\ adders' = [adders EXCEPT ![g].pc = "done"]
    /\ UNCHANGED <<prog, procVars, loop, ops, exceptAtomic>>

\* wg.Wait() returns when the WaitGroup's counter is zero.
atomicWait ==
    /\ prog = "atomic"
    /\ proc = "running"
    /\ pc = "wait"
    /\ wg = 0
    /\ pc' = "println"
    /\ UNCHANGED <<prog, proc, status, out, defers, panicVal, err, calls,
                   loop, atomVars, exceptAtomic>>

\* fmt.Println("ops:", ops): a plain read of ops.
atomicPrintln ==
    /\ prog = "atomic"
    /\ proc = "running"
    /\ pc = "println"
    /\ out' = Append(out, <<"ops:", ops>>)
    /\ pc' = "load"
    /\ UNCHANGED <<prog, proc, status, defers, panicVal, err, calls,
                   loop, atomVars, exceptAtomic>>

\* fmt.Println("ops:", atomic.LoadUint64(&ops)), and main returns.
atomicLoad ==
    /\ prog = "atomic"
    /\ proc = "running"
    /\ pc = "load"
    /\ out' = Append(out, <<"ops:", ops>>)
    /\ pc' = "return"
    /\ UNCHANGED <<prog, proc, status, defers, panicVal, err, calls,
                   loop, atomVars, exceptAtomic>>


\* ------------------------------------------------------------------ mutexes

\* A mutant of CanLock: mutex.Lock() returns whether the mutex is free or not.
LockNotWaiting(m) == TRUE

\* mutex.Lock() can proceed when the mutex is not locked.
CanLock(m) == ~m

\* state[key]: the value stored, or the zero value when the key is missing.
MapGet(m, k) == IF k \in DOMAIN m THEN m[k] ELSE 0

\* state[key] = val
MapSet(m, k, v) == [x \in DOMAIN m \cup {k} |-> IF x = k THEN v ELSE m[x]]

\* The rounds of their loops the goroutines have started.
InRound(g) == g.pc \in {"locked", "unlock", "add"}
Rounds ==
    readOps + writeOps
    + Cardinality({r \in 1..Readers : InRound(readers[r])})
    + Cardinality({w \in 1..Writers : InRound(writers[w])})

\* for r := 0; r < 100; r++ { go func() { total := 0; ... }() }
mutexGoReader ==
    /\ prog = "mutex"
    /\ proc = "running"
    /\ pc = "main"
    /\ loop <= Readers
    /\ readers' = [readers EXCEPT ![loop].pc = "loop"]
    /\ loop' = IF loop = Readers THEN 1 ELSE loop + 1
    /\ pc' = IF loop = Readers THEN "writers" ELSE pc
    /\ UNCHANGED <<prog, proc, status, out, defers, panicVal, err, calls,
                   state, mutex, readOps, writeOps, writers, exceptMutex>>

\* for w := 0; w < 10; w++ { go func() {...}() }
mutexGoWriter ==
    /\ prog = "mutex"
    /\ proc = "running"
    /\ pc = "writers"
    /\ loop <= Writers
    /\ writers' = [writers EXCEPT ![loop].pc = "loop"]
    /\ loop' = loop + 1
    /\ pc' = IF loop = Writers THEN "sleep" ELSE pc
    /\ UNCHANGED <<prog, proc, status, out, defers, panicVal, err, calls,
                   state, mutex, readOps, writeOps, readers, exceptMutex>>

\* key := rand.Intn(5); mutex.Lock()
readerLock(r) ==
    /\ prog = "mutex"
    /\ proc = "running"
    /\ readers[r].pc = "loop"
    /\ Rounds < MaxOps
    /\ CanLock(mutex)
    /\ mutex' = TRUE
    /\ \E key \in 0..(Keys - 1) :
          readers' = [readers EXCEPT ![r].pc = "locked", ![r].key = key]
    /\ UNCHANGED <<prog, procVars, loop, state, readOps, writeOps, writers, exceptMutex>>

\* total += state[key], the last use of the round's variable key
readerRead(r) ==
    /\ prog = "mutex"
    /\ proc = "running"
    /\ readers[r].pc = "locked"
    /\ readers' = [readers EXCEPT
                     ![r].pc = "unlock",
                     ![r].key = 0,
                     ![r].total = @ + MapGet(state, readers[r].key)]
    /\ UNCHANGED <<prog, procVars, loop, state, mutex, readOps, writeOps, writers,
                   exceptMutex>>

\* mutex.Unlock()
readerUnlock(r) ==
    /\ prog = "mutex"
    /\ proc = "running"
    /\ readers[r].pc = "unlock"
    /\ mutex' = FALSE
    /\ readers' = [readers EXCEPT ![r].pc = "add"]
    /\ UNCHANGED <<prog, procVars, loop, state, readOps, writeOps, writers, exceptMutex>>

\* atomic.AddUint64(&readOps, 1); time.Sleep(time.Millisecond)
readerAdd(r) ==
    /\ prog = "mutex"
    /\ proc = "running"
    /\ readers[r].pc = "add"
    /\ readOps' = readOps + 1
    /\ readers' = [readers EXCEPT ![r].pc = "loop"]
    /\ UNCHANGED <<prog, procVars, loop, state, mutex, writeOps, writers, exceptMutex>>

\* key := rand.Intn(5); val := rand.Intn(100); mutex.Lock()
writerLock(w) ==
    /\ prog = "mutex"
    /\ proc = "running"
    /\ writers[w].pc = "loop"
    /\ Rounds < MaxOps
    /\ CanLock(mutex)
    /\ mutex' = TRUE
    /\ \E key \in 0..(Keys - 1), val \in 0..(Vals - 1) :
          writers' = [writers EXCEPT ![w].pc = "locked", ![w].key = key, ![w].val = val]
    /\ UNCHANGED <<prog, procVars, loop, state, readOps, writeOps, readers, exceptMutex>>

\* state[key] = val, the last use of the round's variables key and val
writerWrite(w) ==
    /\ prog = "mutex"
    /\ proc = "running"
    /\ writers[w].pc = "locked"
    /\ state' = MapSet(state, writers[w].key, writers[w].val)
    /\ writers' = [writers EXCEPT ![w].pc = "unlock", ![w].key = 0, ![w].val = 0]
    /\ UNCHANGED <<prog, procVars, loop, mutex, readOps, writeOps, readers, exceptMutex>>

\* mutex.Unlock()
writerUnlock(w) ==
    /\ prog = "mutex"
    /\ proc = "running"
    /\ writers[w].pc = "unlock"
    /\ mutex' = FALSE
    /\ writers' = [writers EXCEPT ![w].pc = "add"]
    /\ UNCHANGED <<prog, procVars, loop, state, readOps, writeOps, readers, exceptMutex>>

\* atomic.AddUint64(&writeOps, 1); time.Sleep(time.Millisecond)
writerAdd(w) ==
    /\ prog = "mutex"
    /\ proc = "running"
    /\ writers[w].pc = "add"
    /\ writeOps' = writeOps + 1
    /\ writers' = [writers EXCEPT ![w].pc = "loop"]
    /\ UNCHANGED <<prog, procVars, loop, state, mutex, readOps, readers, exceptMutex>>

\* time.Sleep(time.Second) is over: readOpsFinal := atomic.LoadUint64(&readOps)
\* and fmt.Println("readOps:", readOpsFinal)
mutexSleep ==
    /\ prog = "mutex"
    /\ proc = "running"
    /\ pc = "sleep"
    /\ out' = Append(out, <<"readOps:", readOps>>)
    /\ pc' = "writeOps"
    /\ UNCHANGED <<prog, proc, status, defers, panicVal, err, calls,
                   loop, mutexVars, exceptMutex>>

\* writeOpsFinal := atomic.LoadUint64(&writeOps); fmt.Println("writeOps:", writeOpsFinal)
mutexWriteOpsFinal ==
    /\ prog = "mutex"
    /\ proc = "running"
    /\ pc = "writeOps"
    /\ out' = Append(out, <<"writeOps:", writeOps>>)
    /\ pc' = "lock"
    /\ UNCHANGED <<prog, proc, status, defers, panicVal, err, calls,
                   loop, mutexVars, exceptMutex>>

\* mutex.Lock()
mutexLock ==
    /\ prog = "mutex"
    /\ proc = "running"
    /\ pc = "lock"
    /\ CanLock(mutex)
    /\ mutex' = TRUE
    /\ pc' = "locked"
    /\ UNCHANGED <<prog, proc, status, out, defers, panicVal, err, calls,
                   loop, state, readOps, writeOps, readers, writers, exceptMutex>>

\* fmt.Println("state:", state)
mutexPrintState ==
    /\ prog = "mutex"
    /\ proc = "running"
    /\ pc = "locked"
    /\ out' = Append(out, <<"state:", state>>)
    /\ pc' = "unlock"
    /\ UNCHANGED <<prog, proc, status, defers, panicVal, err, calls,
                   loop, mutexVars, exceptMutex>>

\* mutex.Unlock(), and main returns.
mutexUnlock ==
    /\ prog = "mutex"
    /\ proc = "running"
    /\ pc = "unlock"
    /\ mutex' = FALSE
    /\ pc' = "return"
    /\ UNCHANGED <<prog, proc, status, out, defers, panicVal, err, calls,
                   loop, state, readOps, writeOps, readers, writers, exceptMutex>>


\* ------------------------------------------------------ stateful goroutines

\* The goroutines that issue reads and writes, and the op of an idle owner.
Clients == ({"reader"} \X (1..Readers)) \cup ({"writer"} \X (1..Writers))
NoOp == [kind |-> "none", key |-> 0, val |-> 0, resp |-> <<>>]

\* The rounds of their loops the reading and writing goroutines have started.
ClientRounds ==
    counts.readOps + counts.writeOps
    + Cardinality({c \in Clients : clients[c].pc \in {"recv", "add"}})

\* go func() { var state = make(map[int]int); for { select {...} } }()
statefulGoOwner ==
    /\ prog = "stateful"
    /\ proc = "running"
    /\ pc = "main"
    /\ owner' = [owner EXCEPT !.pc = "select"]
    /\ pc' = "readers"
    /\ UNCHANGED <<prog, proc, status, out, defers, panicVal, err, calls,
                   loop, clients, counts, written, exceptStateful>>

\* for r := 0; r < 100; r++ { go func() {...}() }
statefulGoReader ==
    /\ prog = "stateful"
    /\ proc = "running"
    /\ pc = "readers"
    /\ loop <= Readers
    /\ clients' = [clients EXCEPT ![<<"reader", loop>>].pc = "loop"]
    /\ loop' = IF loop = Readers THEN 1 ELSE loop + 1
    /\ pc' = IF loop = Readers THEN "writers" ELSE pc
    /\ UNCHANGED <<prog, proc, status, out, defers, panicVal, err, calls,
                   owner, counts, written, exceptStateful>>

\* for w := 0; w < 10; w++ { go func() {...}() }
statefulGoWriter ==
    /\ prog = "stateful"
    /\ proc = "running"
    /\ pc = "writers"
    /\ loop <= Writers
    /\ clients' = [clients EXCEPT ![<<"writer", loop>>].pc = "loop"]
    /\ loop' = loop + 1
    /\ pc' = IF loop = Writers THEN "sleep" ELSE pc
    /\ UNCHANGED <<prog, proc, status, out, defers, panicVal, err, calls,
                   owner, counts, written, exceptStateful>>

\* A mutant of ownerSelect: the ops do not carry a resp channel of their
\* own, and the owner answers on the channel of any goroutine.
ownerSelectAnyResp(c) ==
    /\ prog = "stateful"
    /\ proc = "running"
    /\ owner.pc = "select"
    /\ clients[c].pc = "loop"
    /\ ClientRounds < MaxOps
    /\ \E key \in 0..(Keys - 1), val \in 0..(Vals - 1), d \in Clients :
          /\ c[1] = "reader" => val = 0
          /\ owner' = [owner EXCEPT
                         !.pc = IF c[1] = "reader" THEN "reply" ELSE "write",
                         !.op = [kind |-> c[1], key |-> key, val |-> val, resp |-> d]]
    /\ clients' = [clients EXCEPT ![c].pc = "recv"]
    /\ UNCHANGED <<prog, procVars, loop, counts, written, exceptStateful>>

\* read := readOp{key: rand.Intn(5), resp: make(chan int)} and reads <- read
\* meet case read := <-reads, or write := writeOp{key: rand.Intn(5),
\* val: rand.Intn(100), resp: make(chan bool)} and writes <- write meet
\* case write := <-writes: the channels are unbuffered, the send and the
\* receive are one step, and the op is the sender's own until then; the
\* select takes any case that can proceed.
ownerSelect(c) ==
    /\ prog = "stateful"
    /\ proc = "running"
    /\ owner.pc = "select"
    /\ clients[c].pc = "loop"
    /\ ClientRounds < MaxOps
    /\ \E key \in 0..(Keys - 1), val \in 0..(Vals - 1) :
          /\ c[1] = "reader" => val = 0
          /\ owner' = [owner EXCEPT
                         !.pc = IF c[1] = "reader" THEN "reply" ELSE "write",
                         !.op = [kind |-> c[1], key |-> key, val |-> val, resp |-> c]]
    /\ clients' = [clients EXCEPT ![c].pc = "recv"]
    /\ UNCHANGED <<prog, procVars, loop, counts, written, exceptStateful>>

\* A mutant of ownerWrite: the owner does not store the value.
ownerWriteLost ==
    /\ prog = "stateful"
    /\ proc = "running"
    /\ owner.pc = "write"
    /\ owner' = [owner EXCEPT !.pc = "reply"]
    /\ written' = Append(written, [key |-> owner.op.key, val |-> owner.op.val])
    /\ UNCHANGED <<prog, procVars, loop, clients, counts, exceptStateful>>

\* state[write.key] = write.val
ownerWrite ==
    /\ prog = "stateful"
    /\ proc = "running"
    /\ owner.pc = "write"
    /\ owner' = [owner EXCEPT
                   !.pc = "reply",
                   !.state = MapSet(@, owner.op.key, owner.op.val)]
    /\ written' = Append(written, [key |-> owner.op.key, val |-> owner.op.val])
    /\ UNCHANGED <<prog, procVars, loop, clients, counts, exceptStateful>>

\* read.resp <- state[read.key] or write.resp <- true meets the <-read.resp
\* or <-write.resp of the goroutine that made the channel.
ownerReply(c) ==
    /\ prog = "stateful"
    /\ proc = "running"
    /\ owner.pc = "reply"
    /\ owner.op.resp = c
    /\ clients[c].pc = "recv"
    /\ clients' = [clients EXCEPT
                     ![c].pc = "add",
                     ![c].got = IF owner.op.kind = "reader"
                                THEN <<MapGet(owner.state, owner.op.key)>>
                                ELSE <<TRUE>>]
    /\ owner' = [owner EXCEPT !.pc = "select", !.op = NoOp]
    /\ UNCHANGED <<prog, procVars, loop, counts, written, exceptStateful>>

\* atomic.AddUint64(&readOps, 1) or atomic.AddUint64(&writeOps, 1), and
\* time.Sleep(time.Millisecond); the round's op goes out of scope.
clientAdd(c) ==
    /\ prog = "stateful"
    /\ proc = "running"
    /\ clients[c].pc = "add"
    /\ counts' = IF c[1] = "reader"
                 THEN [counts EXCEPT !.readOps = @ + 1]
                 ELSE [counts EXCEPT !.writeOps = @ + 1]
    /\ clients' = [clients EXCEPT ![c] = [pc |-> "loop", got |-> <<>>]]
    /\ UNCHANGED <<prog, procVars, loop, owner, written, exceptStateful>>

\* time.Sleep(time.Second) is over: readOpsFinal := atomic.LoadUint64(&readOps)
\* and fmt.Println("readOps:", readOpsFinal)
statefulReadOpsFinal ==
    /\ prog = "stateful"
    /\ proc = "running"
    /\ pc = "sleep"
    /\ out' = Append(out, <<"readOps:", counts.readOps>>)
    /\ pc' = "writeOps"
    /\ UNCHANGED <<prog, proc, status, defers, panicVal, err, calls,
                   loop, ownerVars, exceptStateful>>

\* writeOpsFinal := atomic.LoadUint64(&writeOps); fmt.Println("writeOps:",
\* writeOpsFinal), and main returns.
statefulWriteOpsFinal ==
    /\ prog = "stateful"
    /\ proc = "running"
    /\ pc = "writeOps"
    /\ out' = Append(out, <<"writeOps:", counts.writeOps>>)
    /\ pc' = "return"
    /\ UNCHANGED <<prog, proc, status, defers, panicVal, err, calls,
                   loop, ownerVars, exceptStateful>>


\* --------------------------------------------------------- closing channels

ClosingCap == 5     \* jobs := make(chan int, 5)
ClosingJobs == 3    \* for j := 1; j <= 3; j++

\* go func() { for { j, more := <-jobs; ... } }()
closingGo ==
    /\ prog = "closing"
    /\ proc = "running"
    /\ pc = "main"
    /\ closing' = [closing EXCEPT !.worker = "recv"]
    /\ pc' = "send"
    /\ UNCHANGED <<prog, proc, status, out, defers, panicVal, err, calls,
                   loop, exceptClosing>>

\* jobs <- j
closingSend ==
    /\ prog = "closing"
    /\ proc = "running"
    /\ pc = "send"
    /\ loop <= ClosingJobs
    /\ CanSend(closing.jobs, ClosingCap)
    /\ closing' = [closing EXCEPT !.jobs = Send(@, loop)]
    /\ pc' = "sent"
    /\ UNCHANGED <<prog, proc, status, out, defers, panicVal, err, calls,
                   loop, exceptClosing>>

\* fmt.Println("sent job", j); j++
closingSent ==
    /\ prog = "closing"
    /\ proc = "running"
    /\ pc = "sent"
    /\ out' = Append(out, <<"sent job", loop>>)
    /\ loop' = loop + 1
    /\ pc' = "send"
    /\ UNCHANGED <<prog, proc, status, defers, panicVal, err, calls,
                   closing, exceptClosing>>

\* close(jobs), once the loop is over.
closingClose ==
    /\ prog = "closing"
    /\ proc = "running"
    /\ pc = "send"
    /\ loop > ClosingJobs
    /\ closing' = [closing EXCEPT !.jobs = Close(@)]
    /\ pc' = "closed"
    /\ UNCHANGED <<prog, proc, status, out, defers, panicVal, err, calls,
                   loop, exceptClosing>>

\* fmt.Println("sent all jobs")
closingSentAll ==
    /\ prog = "closing"
    /\ proc = "running"
    /\ pc = "closed"
    /\ out' = Append(out, <<"sent all jobs">>)
    /\ pc' = "done"
    /\ UNCHANGED <<prog, proc, status, defers, panicVal, err, calls,
                   loop, closing, exceptClosing>>

\* j, more := <-jobs
closingRecv ==
    /\ prog = "closing"
    /\ proc = "running"
    /\ closing.worker = "recv"
    /\ CanRecv(closing.jobs)
    /\ closing' = [closing EXCEPT
                     !.jobs = Recv(@),
                     !.j = IF More(closing.jobs) THEN Head(closing.jobs.buf) ELSE 0,
                     !.more = More(closing.jobs),
                     !.worker = "check"]
    /\ UNCHANGED <<prog, procVars, loop, exceptClosing>>

\* if more { fmt.Println("received job", j) } else { fmt.Println("received
\* all jobs"); ... }
closingCheck ==
    /\ prog = "closing"
    /\ proc = "running"
    /\ closing.worker = "check"
    /\ IF closing.more
       THEN /\ out' = Append(out, <<"received job", closing.j>>)
            /\ closing' = [closing EXCEPT !.worker = "recv"]
       ELSE /\ out' = Append(out, <<"received all jobs">>)
            /\ closing' = [closing EXCEPT !.worker = "done"]
    /\ UNCHANGED <<prog, proc, status, pc, defers, panicVal, err, calls,
                   loop, exceptClosing>>

\* done <- true in the worker meets <-done in main: done is unbuffered, the
\* send and the receive are one step. The worker returns, and so does main.
closingDone ==
    /\ prog = "closing"
    /\ proc = "running"
    /\ pc = "done"
    /\ closing.worker = "done"
    /\ closing' = [closing EXCEPT !.worker = "returned"]
    /\ pc' = "return"
    /\ UNCHANGED <<prog, proc, status, out, defers, panicVal, err, calls,
                   loop, exceptClosing>>


\* ----------------------------------------------------------------- timeouts

Unbuffered == 0         \* a mutant of ResultCap: make(chan string), no buffer
ResultCap == 1          \* c1 := make(chan string, 1), c2 likewise
ResultSeconds == 2      \* time.Sleep(2 * time.Second) in both goroutines
Timeout1 == 1           \* time.After(1 * time.Second)
Timeout2 == 3           \* time.After(3 * time.Second)

ResultText(n) == IF n = 1 THEN "result 1" ELSE "result 2"
TimeoutText(n) == IF n = 1 THEN "timeout 1" ELSE "timeout 2"
TimeoutSeconds(n) == IF n = 1 THEN Timeout1 ELSE Timeout2

\* c := make(chan string, 1); go func() { time.Sleep(2 * time.Second); ... }()
timeoutsGo ==
    /\ prog = "timeouts"
    /\ proc = "running"
    /\ pc = "main"
    /\ timeouts' = [timeouts EXCEPT
                      !.g[timeouts.round] = "sleep",
                      !.sleep[timeouts.round] = ResultSeconds]
    /\ pc' = "select"
    /\ UNCHANGED <<prog, proc, status, out, defers, panicVal, err, calls,
                   exceptTimeouts>>

\* select: the operands are evaluated first, so time.After starts its timer.
timeoutsSelect ==
    /\ prog = "timeouts"
    /\ proc = "running"
    /\ pc = "select"
    /\ timeouts' = [timeouts EXCEPT !.timer = TimeoutSeconds(timeouts.round)]
    /\ pc' = "poll"
    /\ UNCHANGED <<prog, proc, status, out, defers, panicVal, err, calls,
                   exceptTimeouts>>

\* select: with a case that can proceed, one of those is chosen; with none,
\* main parks until a send on the channel or the timer wakes it.
timeoutsPoll ==
    /\ prog = "timeouts"
    /\ proc = "running"
    /\ pc = "poll"
    /\ LET result == More(timeouts.c[timeouts.round])
           fired == timeouts.timer = 0
       IN  \/ result /\ pc' = "result"
           \/ fired /\ pc' = "timeout"
           \/ ~result /\ ~fired /\ pc' = "parked"
    /\ UNCHANGED <<prog, proc, status, out, defers, panicVal, err, calls,
                   timeouts, exceptTimeouts>>

\* case res := <-c: fmt.Println(res); what follows the select: the second
\* round, or main's return.
timeoutsResult ==
    /\ prog = "timeouts"
    /\ proc = "running"
    /\ pc = "result"
    /\ out' = Append(out, Head(timeouts.c[timeouts.round].buf))
    /\ timeouts' = [timeouts EXCEPT
                      !.c[timeouts.round] = Recv(@),
                      !.timer = -1,
                      !.round = IF @ = 1 THEN 2 ELSE @]
    /\ pc' = IF timeouts.round = 1 THEN "main" ELSE "return"
    /\ UNCHANGED <<prog, proc, status, defers, panicVal, err, calls, exceptTimeouts>>

\* case <-time.After(...): fmt.Println("timeout n"), and what follows.
timeoutsTimeout ==
    /\ prog = "timeouts"
    /\ proc = "running"
    /\ pc = "timeout"
    /\ out' = Append(out, TimeoutText(timeouts.round))
    /\ timeouts' = [timeouts EXCEPT
                      !.timer = -1,
                      !.round = IF @ = 1 THEN 2 ELSE @]
    /\ pc' = IF timeouts.round = 1 THEN "main" ELSE "return"
    /\ UNCHANGED <<prog, proc, status, defers, panicVal, err, calls, exceptTimeouts>>

\* c <- "result n", once the goroutine has slept; the goroutine ends. The
\* send wakes main when main is parked in the select on this channel.
timeoutsSend(n) ==
    /\ prog = "timeouts"
    /\ proc = "running"
    /\ timeouts.g[n] = "send"
    /\ CanSend(timeouts.c[n], ResultCap)
    /\ timeouts' = [timeouts EXCEPT
                      !.c[n] = Send(@, ResultText(n)),
                      !.g[n] = "done"]
    /\ pc' = IF pc = "parked" /\ timeouts.round = n THEN "result" ELSE pc
    /\ UNCHANGED <<prog, proc, status, out, defers, panicVal, err, calls,
                   exceptTimeouts>>

\* A second passes: a goroutine whose sleep is over goes on to its send, and
\* the timer, when its time is up, fires and wakes main if it is parked.
timeoutsTick ==
    /\ prog = "timeouts"
    /\ proc = "running"
    /\ timeouts.timer > 0 \/ \E n \in 1..2 : timeouts.sleep[n] > 0
    /\ timeouts' = [timeouts EXCEPT
                      !.sleep = [n \in 1..2 |-> IF @[n] > 0 THEN @[n] - 1 ELSE @[n]],
                      !.g = [n \in 1..2 |->
                               IF timeouts.sleep[n] = 1 THEN "send" ELSE @[n]],
                      !.timer = IF @ > 0 THEN @ - 1 ELSE @]
    /\ pc' = IF pc = "parked" /\ timeouts.timer = 1 THEN "timeout" ELSE pc
    /\ UNCHANGED <<prog, proc, status, out, defers, panicVal, err, calls,
                   exceptTimeouts>>


\* ------------------------------------------------------------------- timers

Timer1Seconds == 2      \* timer1 := time.NewTimer(2 * time.Second)
Timer2Seconds == 1      \* timer2 := time.NewTimer(time.Second)
WaitSeconds == 2        \* time.Sleep(2 * time.Second)

\* A timer that is not running, and time.NewTimer(d): a running timer with an
\* empty channel C.
NoTimer == [left |-> -1, C |-> 0]
NewTimer(d) == [left |-> d, C |-> 0]

\* A second passes for a timer: one whose time is up sends on its channel C
\* (which holds one value) and stops running.
TimerTick(t) ==
    IF t.left > 1 THEN [t EXCEPT !.left = @ - 1]
    ELSE IF t.left = 1 THEN [left |-> -1, C |-> 1]
    ELSE t

\* A mutant of TimerStop: Stop() leaves the timer running.
TimerStopNoEffect(t) == t

\* t.Stop() returns true when the call stops the timer, false when the timer
\* has expired already or was stopped; the timer is not running afterwards.
Stopped(t) == t.left > 0
TimerStop(t) == [t EXCEPT !.left = -1]

\* timer1 := time.NewTimer(2 * time.Second)
timersNew1 ==
    /\ prog = "timers"
    /\ proc = "running"
    /\ pc = "main"
    /\ timers' = [timers EXCEPT !.timer1 = NewTimer(Timer1Seconds)]
    /\ pc' = "recv1"
    /\ UNCHANGED <<prog, proc, status, out, defers, panicVal, err, calls, exceptTimers>>

\* <-timer1.C; fmt.Println("Timer 1 fired")
timersRecv1 ==
    /\ prog = "timers"
    /\ proc = "running"
    /\ pc = "recv1"
    /\ timers.timer1.C > 0
    /\ timers' = [timers EXCEPT !.timer1.C = @ - 1]
    /\ out' = Append(out, "Timer 1 fired")
    /\ pc' = "new2"
    /\ UNCHANGED <<prog, proc, status, defers, panicVal, err, calls, exceptTimers>>

\* timer2 := time.NewTimer(time.Second)
timersNew2 ==
    /\ prog = "timers"
    /\ proc = "running"
    /\ pc = "new2"
    /\ timers' = [timers EXCEPT !.timer2 = NewTimer(Timer2Seconds)]
    /\ pc' = "go"
    /\ UNCHANGED <<prog, proc, status, out, defers, panicVal, err, calls, exceptTimers>>

\* go func() { <-timer2.C; fmt.Println("Timer 2 fired") }()
timersGo ==
    /\ prog = "timers"
    /\ proc = "running"
    /\ pc = "go"
    /\ timers' = [timers EXCEPT !.g = "recv"]
    /\ pc' = "stop"
    /\ UNCHANGED <<prog, proc, status, out, defers, panicVal, err, calls, exceptTimers>>

\* stop2 := timer2.Stop()
timersStop ==
    /\ prog = "timers"
    /\ proc = "running"
    /\ pc = "stop"
    /\ timers' = [timers EXCEPT
                    !.stop2 = IF Stopped(timers.timer2) THEN "true" ELSE "false",
                    !.timer2 = TimerStop(@)]
    /\ pc' = "check"
    /\ UNCHANGED <<prog, proc, status, out, defers, panicVal, err, calls, exceptTimers>>

\* if stop2 { fmt.Println("Timer 2 stopped") }; time.Sleep(2 * time.Second)
\* begins.
timersCheck ==
    /\ prog = "timers"
    /\ proc = "running"
    /\ pc = "check"
    /\ out' = IF timers.stop2 = "true" THEN Append(out, "Timer 2 stopped") ELSE out
    /\ timers' = [timers EXCEPT !.sleep = WaitSeconds]
    /\ pc' = "sleep"
    /\ UNCHANGED <<prog, proc, status, defers, panicVal, err, calls, exceptTimers>>

\* The sleep is over: main returns.
timersWake ==
    /\ prog = "timers"
    /\ proc = "running"
    /\ pc = "sleep"
    /\ timers.sleep = 0
    /\ pc' = "return"
    /\ UNCHANGED <<prog, proc, status, out, defers, panicVal, err, calls,
                   timers, exceptTimers>>

\* <-timer2.C in the goroutine
timersGoroutineRecv ==
    /\ prog = "timers"
    /\ proc = "running"
    /\ timers.g = "recv"
    /\ timers.timer2.C > 0
    /\ timers' = [timers EXCEPT !.timer2.C = @ - 1, !.g = "println"]
    /\ UNCHANGED <<prog, procVars, exceptTimers>>

\* fmt.Println("Timer 2 fired"); the goroutine ends.
timersGoroutinePrintln ==
    /\ prog = "timers"
    /\ proc = "running"
    /\ timers.g = "println"
    /\ out' = Append(out, "Timer 2 fired")
    /\ timers' = [timers EXCEPT !.g = "done"]
    /\ UNCHANGED <<prog, proc, status, pc, defers, panicVal, err, calls, exceptTimers>>

\* A second passes for the running timers and for main's sleep.
timersTick ==
    /\ prog = "timers"
    /\ proc = "running"
    /\ timers.timer1.left > 0 \/ timers.timer2.left > 0 \/ timers.sleep > 0
    /\ timers' = [timers EXCEPT
                    !.timer1 = TimerTick(@),
                    !.timer2 = TimerTick(@),
                    !.sleep = IF @ > 0 THEN @ - 1 ELSE @]
    /\ UNCHANGED <<prog, procVars, exceptTimers>>


\* ------------------------------------------------------------ rate limiting

NumRequests == 5    \* make(chan int, 5); for i := 1; i <= 5; i++
BurstCap == 3       \* burstyLimiter := make(chan time.Time, 3)
BurstFill == 3      \* for i := 0; i < 3; i++ { burstyLimiter <- time.Now() }

\* time.Tick(200 * time.Millisecond): a ticker sends the time on its channel
\* C, which holds one value, every 200 ms; a tick that finds C full is
\* dropped. The time is counted in ticks of the goroutine's ticker.
NoTicker == [on |-> FALSE, C |-> <<>>]
NewTicker == [on |-> TRUE, C |-> <<>>]
TickerTick(tk, now) ==
    IF tk.on /\ tk.C = <<>> THEN [tk EXCEPT !.C = <<now>>] ELSE tk

\* for i := 1; i <= 5; i++ { requests <- i }
rateRequests ==
    /\ prog = "rate"
    /\ proc = "running"
    /\ pc = "main"
    /\ loop <= NumRequests
    /\ CanSend(rate.requests, NumRequests)
    /\ rate' = [rate EXCEPT !.requests = Send(@, loop)]
    /\ loop' = loop + 1
    /\ UNCHANGED <<prog, proc, status, pc, out, defers, panicVal, err, calls, exceptRate>>

\* close(requests); limiter := time.Tick(200 * time.Millisecond)
rateClose ==
    /\ prog = "rate"
    /\ proc = "running"
    /\ pc = "main"
    /\ loop > NumRequests
    /\ rate' = [rate EXCEPT !.requests = Close(@), !.limiter = NewTicker]
    /\ pc' = "range"
    /\ UNCHANGED <<prog, proc, status, out, defers, panicVal, err, calls, loop, exceptRate>>

\* for req := range requests: the next request, or the end of the loop.
rateRange ==
    /\ prog = "rate"
    /\ proc = "running"
    /\ pc = "range"
    /\ CanRecv(rate.requests)
    /\ rate' = [rate EXCEPT
                  !.requests = Recv(@),
                  !.req = IF More(rate.requests) THEN Head(rate.requests.buf) ELSE @]
    /\ pc' = IF More(rate.requests) THEN "limit" ELSE "fill"
    /\ loop' = IF More(rate.requests) THEN loop ELSE 0
    /\ UNCHANGED <<prog, proc, status, out, defers, panicVal, err, calls, exceptRate>>

\* <-limiter; fmt.Println("request", req, time.Now())
rateLimit ==
    /\ prog = "rate"
    /\ proc = "running"
    /\ pc = "limit"
    /\ rate.limiter.C # <<>>
    /\ rate' = [rate EXCEPT !.limiter.C = <<>>]
    /\ out' = Append(out, <<"request", rate.req>>)
    /\ pc' = "range"
    /\ UNCHANGED <<prog, proc, status, defers, panicVal, err, calls, loop, exceptRate>>

\* for i := 0; i < 3; i++ { burstyLimiter <- time.Now() }
rateFill ==
    /\ prog = "rate"
    /\ proc = "running"
    /\ pc = "fill"
    /\ loop < BurstFill
    /\ CanSend(rate.burstyLimiter, BurstCap)
    /\ rate' = [rate EXCEPT !.burstyLimiter = Send(@, rate.ticks)]
    /\ loop' = loop + 1
    /\ UNCHANGED <<prog, proc, status, pc, out, defers, panicVal, err, calls, exceptRate>>

\* go func() { for t := range time.Tick(200 * time.Millisecond) {...} }()
rateGo ==
    /\ prog = "rate"
    /\ proc = "running"
    /\ pc = "fill"
    /\ loop >= BurstFill
    /\ rate' = [rate EXCEPT !.g = "range", !.ticker = NewTicker]
    /\ pc' = "requests"
    /\ loop' = 1
    /\ UNCHANGED <<prog, proc, status, out, defers, panicVal, err, calls, exceptRate>>

\* for i := 1; i <= 5; i++ { burstyRequests <- i }
rateBurstyRequests ==
    /\ prog = "rate"
    /\ proc = "running"
    /\ pc = "requests"
    /\ loop <= NumRequests
    /\ CanSend(rate.burstyRequests, NumRequests)
    /\ rate' = [rate EXCEPT !.burstyRequests = Send(@, loop)]
    /\ loop' = loop + 1
    /\ UNCHANGED <<prog, proc, status, pc, out, defers, panicVal, err, calls, exceptRate>>

\* close(burstyRequests)
rateBurstyClose ==
    /\ prog = "rate"
    /\ proc = "running"
    /\ pc = "requests"
    /\ loop > NumRequests
    /\ rate' = [rate EXCEPT !.burstyRequests = Close(@)]
    /\ pc' = "burstyRange"
    /\ UNCHANGED <<prog, proc, status, out, defers, panicVal, err, calls, loop, exceptRate>>

\* for req := range burstyRequests: the next request, or the end of the loop
\* and of main.
rateBurstyRange ==
    /\ prog = "rate"
    /\ proc = "running"
    /\ pc = "burstyRange"
    /\ CanRecv(rate.burstyRequests)
    /\ rate' = [rate EXCEPT
                  !.burstyRequests = Recv(@),
                  !.req = IF More(rate.burstyRequests)
                          THEN Head(rate.burstyRequests.buf) ELSE @]
    /\ pc' = IF More(rate.burstyRequests) THEN "burstyLimit" ELSE "return"
    /\ UNCHANGED <<prog, proc, status, out, defers, panicVal, err, calls, loop, exceptRate>>

\* <-burstyLimiter; fmt.Println("request", req, time.Now())
rateBurstyLimit ==
    /\ prog = "rate"
    /\ proc = "running"
    /\ pc = "burstyLimit"
    /\ More(rate.burstyLimiter)
    /\ rate' = [rate EXCEPT
                  !.burstyLimiter = Recv(@),
                  !.taken = Append(@, Head(rate.burstyLimiter.buf))]
    /\ out' = Append(out, <<"request", rate.req>>)
    /\ pc' = "burstyRange"
    /\ UNCHANGED <<prog, proc, status, defers, panicVal, err, calls, loop, exceptRate>>

\* A mutant of rateForwardRange: the goroutine does not wait for the ticker.
rateForwardAtOnce ==
    /\ prog = "rate"
    /\ proc = "running"
    /\ rate.g = "range"
    /\ rate' = [rate EXCEPT !.t = rate.ticks + 1, !.g = "send"]
    /\ UNCHANGED <<prog, procVars, loop, exceptRate>>

\* for t := range time.Tick(...): the goroutine takes the next tick.
rateForwardRange ==
    /\ prog = "rate"
    /\ proc = "running"
    /\ rate.g = "range"
    /\ rate.ticker.C # <<>>
    /\ rate' = [rate EXCEPT !.t = Head(rate.ticker.C), !.ticker.C = <<>>, !.g = "send"]
    /\ UNCHANGED <<prog, procVars, loop, exceptRate>>

\* burstyLimiter <- t
rateForwardSend ==
    /\ prog = "rate"
    /\ proc = "running"
    /\ rate.g = "send"
    /\ CanSend(rate.burstyLimiter, BurstCap)
    /\ rate' = [rate EXCEPT !.burstyLimiter = Send(@, rate.t), !.g = "range"]
    /\ UNCHANGED <<prog, procVars, loop, exceptRate>>

\* 200 ms pass: every ticker ticks.
rateTick ==
    /\ prog = "rate"
    /\ proc = "running"
    /\ rate.limiter.on
    /\ rate.ticks < MaxTicks
    /\ LET now == IF rate.ticker.on THEN rate.ticks + 1 ELSE rate.ticks
       IN  rate' = [rate EXCEPT
                      !.limiter = TickerTick(@, now),
                      !.ticker = TickerTick(@, now),
                      !.ticks = now]
    /\ UNCHANGED <<prog, procVars, loop, exceptRate>>


\* ---------------------------------------------------------------- arrays.go

ArrayLen == 5       \* [5]int
Rows == 2           \* var twoD [2][3]int
Cols == 3           \* var twoD [2][3]int

\* The zero value of [5]int and of [2][3]int, and [5]int{1, 2, 3, 4, 5};
\* indices start at 0.
ZeroArray == [k \in 0..(ArrayLen - 1) |-> 0]
ZeroTwoD == [i \in 0..(Rows - 1) |-> [j \in 0..(Cols - 1) |-> 0]]
OneToFive == [k \in 0..(ArrayLen - 1) |-> k + 1]

\* A variable lives at an address of its own: declaring one takes the next
\* free address and stores its initial value there.
NewAddress(mem) == Len(mem) + 1
Declare(mem, v) == Append(mem, v)

\* A mutant of ParamAddress: the parameter is the caller's variable itself.
ByReference(mem, arg) == arg

\* A call binds an array parameter to a new variable that holds a copy of the
\* argument: arrays are values.
ParamAddress(mem, arg) == NewAddress(mem)
Bind(mem, param, arg) ==
    [x \in 1..(IF param > Len(mem) THEN param ELSE Len(mem)) |->
        IF x = param THEN mem[arg] ELSE mem[x]]

\* var a [5]int; fmt.Println("emp:", a)
arraysDeclareA ==
    /\ prog = "arrays"
    /\ proc = "running"
    /\ pc = "main"
    /\ arrays' = [arrays EXCEPT
                    !.a = NewAddress(arrays.mem),
                    !.mem = Declare(@, ZeroArray)]
    /\ out' = Append(out, <<"emp:", ZeroArray>>)
    /\ pc' = "set"
    /\ UNCHANGED <<prog, proc, status, defers, panicVal, err, calls, loop, exceptArrays>>

\* a[4] = 100; fmt.Println("set:", a); fmt.Println("get:", a[4]);
\* fmt.Println("len:", len(a))
arraysSetA ==
    /\ prog = "arrays"
    /\ proc = "running"
    /\ pc = "set"
    /\ LET set == [arrays.mem[arrays.a] EXCEPT ![4] = 100]
       IN  /\ arrays' = [arrays EXCEPT !.mem[arrays.a] = set]
           /\ out' = out \o <<<<"set:", set>>, <<"get:", set[4]>>, <<"len:", ArrayLen>>>>
    /\ pc' = "dcl"
    /\ UNCHANGED <<prog, proc, status, defers, panicVal, err, calls, loop, exceptArrays>>

\* b := [5]int{1, 2, 3, 4, 5}; fmt.Println("dcl:", b)
arraysDeclareB ==
    /\ prog = "arrays"
    /\ proc = "running"
    /\ pc = "dcl"
    /\ arrays' = [arrays EXCEPT
                    !.b = NewAddress(arrays.mem),
                    !.mem = Declare(@, OneToFive)]
    /\ out' = Append(out, <<"dcl:", OneToFive>>)
    /\ pc' = "call"
    /\ UNCHANGED <<prog, proc, status, defers, panicVal, err, calls, loop, exceptArrays>>

\* update(b): arr is bound to b's value; fmt.Printf("[ %p ]Updting: %v\n",
\* &arr, arr)
arraysCallUpdate ==
    /\ prog = "arrays"
    /\ proc = "running"
    /\ pc = "call"
    /\ LET param == ParamAddress(arrays.mem, arrays.b)
           mem == Bind(arrays.mem, param, arrays.b)
       IN  /\ arrays' = [arrays EXCEPT !.arr = param, !.mem = mem]
           /\ out' = Append(out, <<"Updting:", param, mem[param]>>)
    /\ pc' = "update"
    /\ UNCHANGED <<prog, proc, status, defers, panicVal, err, calls, loop, exceptArrays>>

\* arr[3] = 132, and update returns.
arraysUpdate ==
    /\ prog = "arrays"
    /\ proc = "running"
    /\ pc = "update"
    /\ arrays' = [arrays EXCEPT !.mem[arrays.arr][3] = 132]
    /\ pc' = "after"
    /\ UNCHANGED <<prog, proc, status, out, defers, panicVal, err, calls, loop,
                   exceptArrays>>

\* fmt.Printf("[ %p ]After Updting: %v\n", &b, b)
arraysAfterUpdate ==
    /\ prog = "arrays"
    /\ proc = "running"
    /\ pc = "after"
    /\ out' = Append(out, <<"After Updting:", arrays.b, arrays.mem[arrays.b]>>)
    /\ pc' = "twoD"
    /\ UNCHANGED <<prog, proc, status, defers, panicVal, err, calls, loop, arrays,
                   exceptArrays>>

\* var twoD [2][3]int
arraysDeclareTwoD ==
    /\ prog = "arrays"
    /\ proc = "running"
    /\ pc = "twoD"
    /\ arrays' = [arrays EXCEPT
                    !.twoD = NewAddress(arrays.mem),
                    !.mem = Declare(@, ZeroTwoD)]
    /\ loop' = 0
    /\ pc' = "loops"
    /\ UNCHANGED <<prog, proc, status, out, defers, panicVal, err, calls, exceptArrays>>

\* for i := 0; i < 2; i++ { for j := 0; j < 3; j++ { twoD[i][j] = i + j } }:
\* one assignment; loop counts them, i and j follow from it.
arraysSetTwoD ==
    /\ prog = "arrays"
    /\ proc = "running"
    /\ pc = "loops"
    /\ loop < Rows * Cols
    /\ LET i == loop \div Cols
           j == loop % Cols
       IN  arrays' = [arrays EXCEPT !.mem[arrays.twoD][i][j] = i + j]
    /\ loop' = loop + 1
    /\ UNCHANGED <<prog, proc, status, pc, out, defers, panicVal, err, calls,
                   exceptArrays>>

\* fmt.Println("2d: ", twoD), and main returns.
arraysPrintTwoD ==
    /\ prog = "arrays"
    /\ proc = "running"
    /\ pc = "loops"
    /\ loop >= Rows * Cols
    /\ out' = Append(out, <<"2d: ", arrays.mem[arrays.twoD]>>)
    /\ pc' = "return"
    /\ UNCHANGED <<prog, proc, status, defers, panicVal, err, calls, loop, arrays,
                   exceptArrays>>


\* ------------------------------------------------------------------ maps.go

\* make(map[string]int), len(m), delete(m, k) and the second value of
\* _, prs := m[k]
MakeMap == [k \in {} |-> 0]
MapLen(m) == Cardinality(DOMAIN m)
MapHas(m, k) == k \in DOMAIN m

\* A mutant of MapDelete: the key stays, with the zero value.
MapDeleteZeroing(m, k) == MapSet(m, k, 0)

MapDelete(m, k) == [x \in DOMAIN m \ {k} |-> m[x]]

\* m := make(map[string]int)
mapsMake ==
    /\ prog = "maps"
    /\ proc = "running"
    /\ pc = "main"
    /\ maps' = [maps EXCEPT !.m = MakeMap]
    /\ pc' = "set"
    /\ UNCHANGED <<prog, proc, status, out, defers, panicVal, err, calls, exceptMaps>>

\* m["k1"] = 7; m["k2"] = 13; fmt.Println("map:", m)
mapsSet ==
    /\ prog = "maps"
    /\ proc = "running"
    /\ pc = "set"
    /\ LET m == MapSet(MapSet(maps.m, "k1", 7), "k2", 13)
       IN  /\ maps' = [maps EXCEPT !.m = m]
           /\ out' = Append(out, <<"map:", m>>)
    /\ pc' = "get"
    /\ UNCHANGED <<prog, proc, status, defers, panicVal, err, calls, exceptMaps>>

\* v1 := m["k1"]; fmt.Println("v1: ", v1); fmt.Println("len:", len(m))
mapsGet ==
    /\ prog = "maps"
    /\ proc = "running"
    /\ pc = "get"
    /\ LET v1 == MapGet(maps.m, "k1")
       IN  /\ maps' = [maps EXCEPT !.v1 = v1]
           /\ out' = out \o <<<<"v1: ", v1>>, <<"len:", MapLen(maps.m)>>>>
    /\ pc' = "delete"
    /\ UNCHANGED <<prog, proc, status, defers, panicVal, err, calls, exceptMaps>>

\* delete(m, "k2"); fmt.Println("map:", m)
mapsDelete ==
    /\ prog = "maps"
    /\ proc = "running"
    /\ pc = "delete"
    /\ LET m == MapDelete(maps.m, "k2")
       IN  /\ maps' = [maps EXCEPT !.m = m]
           /\ out' = Append(out, <<"map:", m>>)
    /\ pc' = "lookup"
    /\ UNCHANGED <<prog, proc, status, defers, panicVal, err, calls, exceptMaps>>

\* _, prs := m["k2"]; fmt.Println("prs:", prs)
mapsLookup ==
    /\ prog = "maps"
    /\ proc = "running"
    /\ pc = "lookup"
    /\ LET prs == MapHas(maps.m, "k2")
       IN  /\ maps' = [maps EXCEPT !.prs = prs]
           /\ out' = Append(out, <<"prs:", prs>>)
    /\ pc' = "literal"
    /\ UNCHANGED <<prog, proc, status, defers, panicVal, err, calls, exceptMaps>>

\* n := map[string]int{"foo": 1, "bar": 2}; fmt.Println("map:", n), and main
\* returns.
mapsLiteral ==
    /\ prog = "maps"
    /\ proc = "running"
    /\ pc = "literal"
    /\ LET n == MapSet(MapSet(MakeMap, "foo", 1), "bar", 2)
       IN  /\ maps' = [maps EXCEPT !.n = n]
           /\ out' = Append(out, <<"map:", n>>)
    /\ pc' = "return"
    /\ UNCHANGED <<prog, proc, status, defers, panicVal, err, calls, exceptMaps>>


\* ----------------------------------------------------------- testing (IntMin)

\* The arguments IntMin is called with.
IntRange == (0 - MaxInt)..MaxInt

\* A mutant of IntMin: the comparison is turned round.
IntMinTurned(a, b) == IF a > b THEN a ELSE b

\* func IntMin(a, b int) int { if a < b { return a }; return b }
IntMin(a, b) == IF a < b THEN a ELSE b

\* var tests = []struct{ a, b int; want int }{...}
TestTable ==
    << [a |-> 0, b |-> 1, want |-> 0],
       [a |-> 1, b |-> 0, want |-> 0],
       [a |-> 2, b |-> 0 - 2, want |-> 0 - 2],
       [a |-> 0, b |-> 0 - 1, want |-> 0 - 1],
       [a |-> 0 - 1, b |-> 0, want |-> 0 - 1] >>

\* IntMin(a, b) and IntMin(b, a), for the arguments of this run.
intMinCall ==
    /\ prog = "testing"
    /\ proc = "running"
    /\ pc = "main"
    /\ tests' = [tests EXCEPT !.ans = <<IntMin(tests.a, tests.b), IntMin(tests.b, tests.a)>>]
    /\ pc' = "basic"
    /\ UNCHANGED <<prog, proc, status, out, defers, panicVal, err, calls, exceptTests>>

\* ans := IntMin(2, -2); if ans != -2 { t.Errorf("IntMin(2, -2) = %d; want -2",
\* ans) }
TestIntMinBasic ==
    /\ prog = "testing"
    /\ proc = "running"
    /\ pc = "basic"
    /\ LET ans == IntMin(2, 0 - 2)
       IN  tests' = [tests EXCEPT
                       !.failed = IF ans # 0 - 2
                                  THEN Append(@, <<"TestIntMinBasic", ans, 0 - 2>>)
                                  ELSE @]
    /\ pc' = "table"
    /\ UNCHANGED <<prog, proc, status, out, defers, panicVal, err, calls, exceptTests>>

\* for _, tt := range tests { t.Run(testname, func(t *testing.T) {
\* ans := IntMin(tt.a, tt.b); if ans != tt.want { t.Errorf("got %d, want %d",
\* ans, tt.want) } }) }: one subtest.
TestIntMinTableDriven ==
    /\ prog = "testing"
    /\ proc = "running"
    /\ pc = "table"
    /\ tests.row <= Len(TestTable)
    /\ LET tt == TestTable[tests.row]
           ans == IntMin(tt.a, tt.b)
       IN  tests' = [tests EXCEPT
                       !.row = @ + 1,
                       !.failed = IF ans # tt.want
                                  THEN Append(@, <<"TestIntMinTableDriven", ans, tt.want>>)
                                  ELSE @]
    /\ UNCHANGED <<prog, procVars, exceptTests>>

\* go test ends: PASS and status 0 when no test reported a failure, FAIL and
\* status 1 otherwise.
testingEnd ==
    /\ prog = "testing"
    /\ proc = "running"
    /\ pc = "table"
    /\ tests.row > Len(TestTable)
    /\ IF tests.failed = <<>>
       THEN OsExit(0, Append(out, "PASS"), defers)
       ELSE OsExit(1, Append(out, "FAIL"), defers)
    /\ UNCHANGED <<prog, pc, panicVal, err, calls, tests, exceptTests>>


\* ----------------------------------------------------------- http_server.go

\* The requests clients send: a path and the header of the request, a map
\* from header key to its values.
Paths == {"/hello", "/headers", "/"}
HeaderValues == [k \in {"User-Agent", "Accept"} |->
                    IF k = "User-Agent" THEN <<"curl/7.68.0">> ELSE <<"*/*">>]
Headers == {[k \in K |-> HeaderValues[k]] : K \in SUBSET DOMAIN HeaderValues}
Requests == [path : Paths, header : Headers]

\* The orders in which a range over a map with the keys K can visit them.
Orders(K) ==
    {o \in [1..Cardinality(K) -> K] : \A i, j \in 1..Cardinality(K) : o[i] = o[j] => i = j}

\* A mutant of hello: the body repeats what the request sent.
helloEchoing(req, order) ==
    [status |-> 200,
     body |-> <<"Hello, World!\n">> \o [i \in 1..Len(order) |-> order[i]]]

\* func hello: fmt.Fprintf(resp, "Hello, World!\n")
hello(req, order) == [status |-> 200, body |-> <<"Hello, World!\n">>]

\* func headers: for key, value := range req.Header { fmt.Fprintf(resp,
\* "Header key: %s, value : %s\n", key, value) }, the keys in the order the
\* range visits them.
headers(req, order) ==
    [status |-> 200,
     body |-> [i \in 1..Len(order) |->
                  <<"Header key: ", order[i], ", value : ", req.header[order[i]]>>]]

\* The default mux calls the handler registered for the request's path, and
\* answers 404 when there is none.
ServeHTTP(mux, req, order) ==
    IF ~MapHas(mux, req.path) THEN [status |-> 404, body |-> <<"404 page not found\n">>]
    ELSE IF mux[req.path] = "hello" THEN hello(req, order)
    ELSE headers(req, order)

\* http.HandleFunc("/hello", hello), then http.HandleFunc("/headers", headers)
serverHandleFunc ==
    /\ prog = "server"
    /\ proc = "running"
    /\ pc = "main"
    /\ server' = [server EXCEPT
                    !.mux = IF ~MapHas(@, "/hello") THEN MapSet(@, "/hello", "hello")
                            ELSE MapSet(@, "/headers", "headers")]
    /\ pc' = IF MapHas(server.mux, "/hello") THEN "listen" ELSE pc
    /\ UNCHANGED <<prog, proc, status, out, defers, panicVal, err, calls, exceptServer>>

\* if err := http.ListenAndServe("127.0.0.1:8080", nil); err != nil {
\* log.Panicf("Something went wrong while starting Http Server : %v \n", err) }:
\* the server listens and serves until it fails, or fails at once when the
\* address cannot be bound.
serverListenAndServe ==
    /\ prog = "server"
    /\ proc = "running"
    /\ pc = "listen"
    /\ \/ /\ server' = [server EXCEPT !.addr = "127.0.0.1:8080"]
          /\ pc' = "serving"
          /\ UNCHANGED <<proc, status, out, defers, panicVal>>
       \/ /\ LogPanicf("Something went wrong while starting Http Server", out)
          /\ UNCHANGED server
    /\ UNCHANGED <<prog, err, calls, exceptServer>>

\* A request arrives and net/http calls the handler of its path with it.
serverServe(req) ==
    /\ prog = "server"
    /\ proc = "running"
    /\ pc = "serving"
    /\ Len(server.served) < MaxServed
    /\ \E order \in Orders(DOMAIN req.header) :
          server' = [server EXCEPT
                       !.served = Append(@, [req |-> req, order |-> order,
                                             resp |-> ServeHTTP(server.mux, req, order)])]
    /\ UNCHANGED <<prog, procVars, exceptServer>>


\* -------------------------------------------------------------- constants.go

\* An untyped numeric constant is an exact number: m * 10^e with m not
\* divisible by 10 (zero is m = 0, e = 0). The values of the program are far
\* beyond the integers the checker computes with, so the mantissa and the
\* exponent are kept apart.
NoConst == [m |-> 0, e |-> 0]
RECURSIVE Normal(_)
Normal(x) ==
    IF x.m = 0 THEN NoConst
    ELSE IF x.m % 10 = 0 THEN Normal([m |-> x.m \div 10, e |-> x.e + 1])
    ELSE x
Const(m, e) == Normal([m |-> m, e |-> e])

\* The digits 10 can be multiplied in before a quotient is given up as not a
\* finite decimal.
MaxScale == 4
RECURSIVE Pow10(_)
Pow10(k) == IF k = 0 THEN 1 ELSE 10 * Pow10(k - 1)

\* A mutant of ConstDiv: the division is the integer division of the
\* mantissas.
ConstDivTruncating(x, y) == Const(x.m \div y.m, x.e - y.e)

\* x / y for constants, exact: the mantissa of x is scaled by the least
\* power of 10 that makes the division of the mantissas come out even.
ConstDiv(x, y) ==
    LET scales == {k \in 0..MaxScale : (x.m * Pow10(k)) % y.m = 0}
        k == CHOOSE k \in scales : \A j \in scales : k <= j
    IN  Const((x.m * Pow10(k)) \div y.m, x.e - k - y.e)

\* The decimal digits of a natural number and of a non-negative integral
\* constant, most significant first.
RECURSIVE DigitsOf(_)
DigitsOf(k) == IF k < 10 THEN <<k>> ELSE Append(DigitsOf(k \div 10), k % 10)
Decimal(x) == DigitsOf(x.m) \o [i \in 1..x.e |-> 0]

\* math.MaxInt64 = 9223372036854775807, and whether one digit string is a
\* number no greater than another.
MaxInt64 == <<9, 2, 2, 3, 3, 7, 2, 0, 3, 6, 8, 5, 4, 7, 7, 5, 8, 0, 7>>
RECURSIVE DigitsLeq(_, _)
DigitsLeq(a, b) ==
    IF Len(a) # Len(b) THEN Len(a) < Len(b)
    ELSE IF a = <<>> THEN TRUE
    ELSE IF a[1] # b[1] THEN a[1] < b[1]
    ELSE DigitsLeq(Tail(a), Tail(b))

\* int64(x) for a constant x >= 0: its value when x is an integer that int64
\* can represent; the compiler rejects the conversion otherwise.
Fits64(x) == x.e >= 0 /\ DigitsLeq(Decimal(x), MaxInt64)
Int64(x) == IF Fits64(x) THEN Decimal(x) ELSE <<"constant overflows int64">>

\* fmt.Println(s) with const s string = "constant"
constantsPrintS ==
    /\ prog = "constants"
    /\ proc = "running"
    /\ pc = "main"
    /\ out' = Append(out, <<"constant">>)
    /\ pc' = "declare"
    /\ UNCHANGED <<prog, proc, status, defers, panicVal, err, calls, consts, exceptConsts>>

\* const n = 500000000; const d = 3e20 / n
constantsDeclare ==
    /\ prog = "constants"
    /\ proc = "running"
    /\ pc = "declare"
    /\ LET n == Const(500000000, 0)
       IN  consts' = [n |-> n, d |-> ConstDiv(Const(3, 20), n)]
    /\ pc' = "d"
    /\ UNCHANGED <<prog, proc, status, out, defers, panicVal, err, calls, exceptConsts>>

\* fmt.Println(d): d becomes a float64, printed as mantissa and exponent
constantsPrintD ==
    /\ prog = "constants"
    /\ proc = "running"
    /\ pc = "d"
    /\ out' = Append(out, <<"float64", consts.d.m, consts.d.e>>)
    /\ pc' = "int64"
    /\ UNCHANGED <<prog, proc, status, defers, panicVal, err, calls, consts, exceptConsts>>

\* fmt.Println(int64(d))
constantsPrintInt64 ==
    /\ prog = "constants"
    /\ proc = "running"
    /\ pc = "int64"
    /\ out' = Append(out, <<"int64", Int64(consts.d)>>)
    /\ pc' = "sin"
    /\ UNCHANGED <<prog, proc, status, defers, panicVal, err, calls, consts, exceptConsts>>

\* fmt.Println(math.Sin(n)): n becomes a float64; the sine itself is left
\* uncomputed. main returns.
constantsPrintSin ==
    /\ prog = "constants"
    /\ proc = "running"
    /\ pc = "sin"
    /\ out' = Append(out, <<"math.Sin", consts.n.m, consts.n.e>>)
    /\ pc' = "return"
    /\ UNCHANGED <<prog, proc, status, defers, panicVal, err, calls, consts, exceptConsts>>


\* ------------------------------------------------------------ http_client.go

\* The body the server sends, line by line.
BodyText == <<"<!DOCTYPE html>", "<html>", "</html>">>

\* resp, err := http.Get("https://gobyexample.com/"): an error and a nil
\* resp, or a response with a body of some lines.
clientGet ==
    /\ prog = "client"
    /\ proc = "running"
    /\ pc = "main"
    /\ \/ /\ err' = "dial error"
          /\ UNCHANGED client
       \/ /\ err' = NoErr
          /\ \E n \in 0..MaxLines :
                client' = [client EXCEPT !.resp = "resp", !.body = SubSeq(BodyText, 1, n)]
    /\ calls' = Append(calls, Call("http.Get", "nil", err'))
    /\ pc' = "check"
    /\ UNCHANGED <<prog, proc, status, out, defers, panicVal, exceptClient>>

\* A mutant of clientCheckErr: the defer is registered before the error
\* is looked at.
clientDeferBeforeCheck ==
    /\ prog = "client"
    /\ proc = "running"
    /\ pc = "check"
    /\ defers' = Append(defers, [fn |-> "Body.Close", arg |-> client.resp])
    /\ IF err # NoErr
       THEN /\ panicVal' = "Something went wrong while fetching response"
            /\ pc' = "panicking"
            /\ out' = Append(out, "Something went wrong while fetching response")
       ELSE /\ pc' = "scan"
            /\ UNCHANGED <<out, panicVal>>
    /\ UNCHANGED <<prog, proc, status, err, calls, client, exceptClient>>

\* if err != nil { log.Panicf("Something went wrong while fetching response :
\* %v \n", err) }
clientCheckErr ==
    /\ prog = "client"
    /\ proc = "running"
    /\ pc = "check"
    /\ IF err # NoErr
       THEN LogPanicf("Something went wrong while fetching response", out)
       ELSE /\ pc' = "defer"
            /\ UNCHANGED <<proc, status, out, defers, panicVal>>
    /\ UNCHANGED <<prog, err, calls, client, exceptClient>>

\* defer resp.Body.Close(); scanner := bufio.NewScanner(resp.Body)
clientDefer ==
    /\ prog = "client"
    /\ proc = "running"
    /\ pc = "defer"
    /\ defers' = Append(defers, [fn |-> "Body.Close", arg |-> client.resp])
    /\ calls' = Append(calls, Call("bufio.NewScanner", client.resp, NoErr))
    /\ pc' = "scan"
    /\ UNCHANGED <<prog, proc, status, out, panicVal, err, client, exceptClient>>

\* for scanner.Scan() { log.Println(scanner.Text()) }: Scan delivers the next
\* line, or returns false at the end of the body or on a read error, which
\* the scanner keeps.
clientScan ==
    /\ prog = "client"
    /\ proc = "running"
    /\ pc = "scan"
    /\ \/ /\ client.body # <<>>
          /\ out' = Append(out, Head(client.body))
          /\ client' = [client EXCEPT !.body = Tail(@)]
          /\ pc' = pc
       \/ /\ client.body = <<>>
          /\ pc' = "scanErr"
          /\ UNCHANGED <<out, client>>
       \/ /\ client' = [client EXCEPT !.scanErr = "read error"]
          /\ pc' = "scanErr"
          /\ out' = out
    /\ UNCHANGED <<prog, proc, status, defers, panicVal, err, calls, exceptClient>>

\* if err := scanner.Err(); err != nil { log.Panicf("Something went wrong
\* while Reading response : %v \n", err) }, or main returns.
clientScanErr ==
    /\ prog = "client"
    /\ proc = "running"
    /\ pc = "scanErr"
    /\ IF client.scanErr # NoErr
       THEN LogPanicf("Something went wrong while Reading response", out)
       ELSE /\ pc' = "return"
            /\ UNCHANGED <<proc, status, out, defers, panicVal>>
    /\ UNCHANGED <<prog, err, calls, client, exceptClient>>

\* ------------------------------------------------------------ specification

Init ==
    /\ prog \in Programs
    /\ proc = "running"
    /\ status = 0
    /\ pc = "main"
    /\ out = <<>>
    /\ defers = <<>>
    /\ panicVal = "none"
    /\ err = NoErr
    /\ calls = <<>>
    /\ f = 0
    /\ heap = <<>>
    /\ fns = <<>>
    /\ rets = <<>>
    /\ notified = FALSE
    /\ sigs = <<>>
    /\ done = <<>>
    /\ pcG = "none"
    /\ sig = "none"
    /\ arrived = 0
    /\ reqs = [r \in 1..MaxRequests |-> IdleRequest]
    /\ gstep = 1
    /\ grepIn = "nil"
    /\ grepOut = "nil"
    /\ inBuf = <<>>
    /\ outBuf = <<>>
    /\ toWrite = <<>>
    /\ grepBytes = <<>>
    /\ child = "none"
    /\ held = <<>>
    /\ loop = 1
    /\ jobs = MakeChan
    /\ results = MakeChan
    /\ workers = [w \in 1..NumWorkers |-> [pc |-> "none", j |-> 0, log |-> <<>>]]
    /\ collected = [v \in {} |-> 0]
    /\ ops = 0
    /\ wg = 0
    /\ adders = [g \in 1..Goroutines |-> [pc |-> "none", c |-> 0]]
    /\ state = [k \in {} |-> 0]
    /\ mutex = FALSE
    /\ readOps = 0
    /\ writeOps = 0
    /\ readers = [r \in 1..Readers |-> [pc |-> "none", key |-> 0, total |-> 0]]
    /\ writers = [w \in 1..Writers |-> [pc |-> "none", key |-> 0, val |-> 0]]
    /\ owner = [pc |-> "none", state |-> [k \in {} |-> 0], op |-> NoOp]
    /\ clients = [c \in Clients |-> [pc |-> "none", got |-> <<>>]]
    /\ counts = [readOps |-> 0, writeOps |-> 0]
    /\ written = <<>>
    /\ closing = [jobs |-> MakeChan, worker |-> "none", j |-> 0, more |-> TRUE]
    /\ timeouts = [round |-> 1, c |-> <<MakeChan, MakeChan>>, g |-> <<"none", "none">>,
                   sleep |-> <<0, 0>>, timer |-> -1]
    /\ timers = [timer1 |-> NoTimer, timer2 |-> NoTimer, g |-> "none",
                 stop2 |-> "unset", sleep |-> 0]
    /\ rate = [requests |-> MakeChan, limiter |-> NoTicker, req |-> 0,
               burstyLimiter |-> MakeChan, burstyRequests |-> MakeChan,
               ticker |-> NoTicker, g |-> "none", t |-> 0, ticks |-> 0, taken |-> <<>>]
    /\ arrays = [mem |-> <<>>, a |-> 0, b |-> 0, arr |-> 0, twoD |-> 0]
    /\ maps = [m |-> MakeMap, n |-> MakeMap, v1 |-> 0, prs |-> FALSE]
    /\ \E a, b \in (IF prog = "testing" THEN IntRange ELSE {0}) :
          tests = [a |-> a, b |-> b, ans |-> <<>>, row |-> 1, failed |-> <<>>]
    /\ server = [mux |-> MakeMap, addr |-> "none", served |-> <<>>]
    /\ consts = [n |-> NoConst, d |-> NoConst]
    /\ client = [resp |-> "nil", body |-> <<>>, scanErr |-> NoErr]

\* The steps of the programs whose claims are about progress.
ProgressPrograms == {"exit", "signals", "spawn", "pool", "closing", "timeouts"}
ProgressNext ==
    \/ MainReturn
    \/ PanicCrash
    \/ exitDefer
    \/ exitOsExit
    \/ sigNotify
    \/ sigGo
    \/ sigAwaiting
    \/ sigRecvDone
    \/ sigExiting
    \/ gRecv
    \/ gPrintln
    \/ gPrintSig
    \/ gSend
    \/ \E s \in Signals : SignalArrives(s)
    \/ dateOutput
    \/ checkDateErr
    \/ grepStdinPipe
    \/ grepStdoutPipe
    \/ grepStart
    \/ grepInWrite
    \/ grepInClose
    \/ readAll
    \/ grepWait
    \/ printGrep
    \/ lsOutput
    \/ checkLsErr
    \/ grepReadLine
    \/ grepPrintLine
    \/ poolGo
    \/ poolSend
    \/ poolClose
    \/ poolCollect
    \/ poolEnd
    \/ \E w \in 1..NumWorkers : workerRange(w)
    \/ \E w \in 1..NumWorkers : workerStarted(w)
    \/ \E w \in 1..NumWorkers : workerFinished(w)
    \/ \E w \in 1..NumWorkers : workerSend(w)
    \/ closingGo
    \/ closingSend
    \/ closingSent
    \/ closingClose
    \/ closingSentAll
    \/ closingDone
    \/ closingRecv
    \/ closingCheck
    \/ timeoutsGo
    \/ timeoutsSelect
    \/ timeoutsPoll
    \/ timeoutsResult
    \/ timeoutsTimeout
    \/ \E n \in 1..2 : timeoutsSend(n)
    \/ timeoutsTick

Next ==
    \/ ProgressNext
    \/ RunDeferred
    \/ intSeq
    \/ \E n \in 1..Len(fns) : nextInt(n)
    \/ closuresDone
    \/ panicCreate
    \/ panicCheck
    \/ createFile
    \/ deferCloseFile
    \/ writeFile
    \/ lookPath
    \/ checkLookErr
    \/ syscallExec
    \/ checkExecErr
    \/ ctxHandleFunc
    \/ ctxListenAndServe
    \/ \E r \in 1..MaxRequests : Request(r)
    \/ \E r \in 1..MaxRequests : helloStart(r)
    \/ \E r \in 1..MaxRequests : helloSelect(r)
    \/ \E r \in 1..MaxRequests : helloPoll(r)
    \/ \E r \in 1..MaxRequests : helloReply(r)
    \/ \E r \in 1..MaxRequests : helloError(r)
    \/ \E r \in 1..MaxRequests : helloEnd(r)
    \/ \E r \in 1..MaxRequests : Cancel(r)
    \/ Tick
    \/ atomicGo
    \/ atomicWait
    \/ atomicPrintln
    \/ atomicLoad
    \/ \E g \in 1..Goroutines : atomicAdd(g)
    \/ \E g \in 1..Goroutines : atomicDone(g)
    \/ mutexGoReader
    \/ mutexGoWriter
    \/ mutexSleep
    \/ mutexWriteOpsFinal
    \/ mutexLock
    \/ mutexPrintState
    \/ mutexUnlock
    \/ \E r \in 1..Readers : readerLock(r)
    \/ \E r \in 1..Readers : readerRead(r)
    \/ \E r \in 1..Readers : readerUnlock(r)
    \/ \E r \in 1..Readers : readerAdd(r)
    \/ \E w \in 1..Writers : writerLock(w)
    \/ \E w \in 1..Writers : writerWrite(w)
    \/ \E w \in 1..Writers : writerUnlock(w)
    \/ \E w \in 1..Writers : writerAdd(w)
    \/ statefulGoOwner
    \/ statefulGoReader
    \/ statefulGoWriter
    \/ statefulReadOpsFinal
    \/ statefulWriteOpsFinal
    \/ \E c \in Clients : ownerSelect(c)
    \/ ownerWrite
    \/ \E c \in Clients : ownerReply(c)
    \/ \E c \in Clients : clientAdd(c)
    \/ timersNew1
    \/ timersRecv1
    \/ timersNew2
    \/ timersGo
    \/ timersStop
    \/ timersCheck
    \/ timersWake
    \/ timersGoroutineRecv
    \/ timersGoroutinePrintln
    \/ timersTick
    \/ rateRequests
    \/ rateClose
    \/ rateRange
    \/ rateLimit
    \/ rateFill
    \/ rateGo
    \/ rateBurstyRequests
    \/ rateBurstyClose
    \/ rateBurstyRange
    \/ rateBurstyLimit
    \/ rateForwardRange
    \/ rateForwardSend
    \/ rateTick
    \/ arraysDeclareA
    \/ arraysSetA
    \/ arraysDeclareB
    \/ arraysCallUpdate
    \/ arraysUpdate
    \/ arraysAfterUpdate
    \/ arraysDeclareTwoD
    \/ arraysSetTwoD
    \/ arraysPrintTwoD
    \/ mapsMake
    \/ mapsSet
    \/ mapsGet
    \/ mapsDelete
    \/ mapsLookup
    \/ mapsLiteral
    \/ intMinCall
    \/ TestIntMinBasic
    \/ TestIntMinTableDriven
    \/ testingEnd
    \/ serverHandleFunc
    \/ serverListenAndServe
    \/ \E req \in Requests : serverServe(req)
    \/ constantsPrintS
    \/ constantsDeclare
    \/ constantsPrintD
    \/ constantsPrintInt64
    \/ constantsPrintSin
    \/ clientGet
    \/ clientCheckErr
    \/ clientDefer
    \/ clientScan
    \/ clientScanErr

Spec == Init /\ [][Next]_vars

\* What the main goroutine can do next, and what the goroutine of the signals
\* program can: the Go scheduler runs every goroutine that is able to run.
MainSteps ==
    \/ RunDeferred \/ MainReturn \/ PanicCrash
    \/ exitDefer \/ exitOsExit
    \/ panicCreate \/ panicCheck
    \/ createFile \/ deferCloseFile \/ writeFile
    \/ lookPath \/ checkLookErr \/ syscallExec \/ checkExecErr
    \/ sigNotify \/ sigGo \/ sigAwaiting \/ sigRecvDone \/ sigExiting
    \/ ctxHandleFunc \/ ctxListenAndServe
    \/ dateOutput \/ checkDateErr \/ grepStdinPipe \/ grepStdoutPipe \/ grepStart
    \/ grepInWrite \/ grepInClose \/ readAll \/ grepWait \/ printGrep
    \/ lsOutput \/ checkLsErr
    \/ poolGo \/ poolSend \/ poolClose \/ poolCollect \/ poolEnd
    \/ atomicGo \/ atomicWait \/ atomicPrintln \/ atomicLoad
    \/ mutexGoReader \/ mutexGoWriter \/ mutexSleep \/ mutexWriteOpsFinal
    \/ mutexLock \/ mutexPrintState \/ mutexUnlock
    \/ statefulGoOwner \/ statefulGoReader \/ statefulGoWriter
    \/ statefulReadOpsFinal \/ statefulWriteOpsFinal
    \/ closingGo \/ closingSend \/ closingSent \/ closingClose \/ closingSentAll
    \/ closingDone
    \/ timeoutsGo \/ timeoutsSelect \/ timeoutsPoll \/ timeoutsResult \/ timeoutsTimeout
    \/ timersNew1 \/ timersRecv1 \/ timersNew2 \/ timersGo \/ timersStop
    \/ timersCheck \/ timersWake
    \/ rateRequests \/ rateClose \/ rateRange \/ rateLimit \/ rateFill \/ rateGo
    \/ rateBurstyRequests \/ rateBurstyClose \/ rateBurstyRange \/ rateBurstyLimit
    \/ arraysDeclareA \/ arraysSetA \/ arraysDeclareB \/ arraysCallUpdate \/ arraysUpdate
    \/ arraysAfterUpdate \/ arraysDeclareTwoD \/ arraysSetTwoD \/ arraysPrintTwoD
    \/ mapsMake \/ mapsSet \/ mapsGet \/ mapsDelete \/ mapsLookup \/ mapsLiteral
    \/ intMinCall \/ TestIntMinBasic \/ TestIntMinTableDriven \/ testingEnd
    \/ serverHandleFunc \/ serverListenAndServe
    \/ constantsPrintS \/ constantsDeclare \/ constantsPrintD \/ constantsPrintInt64
    \/ constantsPrintSin
    \/ clientGet \/ clientCheckErr \/ clientDefer \/ clientScan \/ clientScanErr

SignalGoroutine == gRecv \/ gPrintln \/ gPrintSig \/ gSend

\* The grep process runs whenever it can: the kernel schedules it.
GrepProcess == grepReadLine \/ grepPrintLine

\* One worker of the pool.
Worker(w) == workerRange(w) \/ workerStarted(w) \/ workerFinished(w) \/ workerSend(w)

\* The runs of the programs whose claims are about progress start in
\* ProgressInit and run under the scheduling the Go runtime and the kernel give: every goroutine and process
\* that can run does run, and the clock of the timeouts program advances.
ProgressInit == Init /\ prog \in ProgressPrograms

FairSpec ==
    /\ ProgressInit
    /\ [][ProgressNext]_vars
    /\ WF_vars(MainSteps)
    /\ WF_vars(SignalGoroutine)
    /\ WF_vars(GrepProcess)
    /\ \A w \in 1..NumWorkers : WF_vars(Worker(w))
    /\ WF_vars(closingRecv \/ closingCheck)
    /\ \A n \in 1..2 : WF_vars(timeoutsSend(n))
    /\ WF_vars(timeoutsTick)

\* The stateful-goroutines program alone, the goroutine that owns the state
\* being scheduled fairly: it runs when it can.
StatefulInit == Init /\ prog = "stateful"

StatefulNext ==
    \/ statefulGoOwner
    \/ statefulGoReader
    \/ statefulGoWriter
    \/ \E c \in Clients : ownerSelect(c)
    \/ ownerWrite
    \/ \E c \in Clients : ownerReply(c)
    \/ \E c \in Clients : clientAdd(c)
    \/ statefulReadOpsFinal
    \/ statefulWriteOpsFinal
    \/ MainReturn

StatefulOwner ==
    \/ \E c \in Clients : ownerSelect(c)
    \/ ownerWrite
    \/ \E c \in Clients : ownerReply(c)

StatefulFairSpec ==
    /\ StatefulInit
    /\ [][StatefulNext]_vars
    /\ WF_vars(StatefulOwner)


\* ------------------------------------------------------------------- claims

\* C1: every function value intSeq() returns owns its counter: the k-th call
\* made to a function value returns k, whatever calls were made to the others
\* in between, and what it returns next depends on its own calls alone.
C1_PrivateCounters ==
    prog = "closures" =>
        \A n \in 1..Len(fns) :
            /\ \A k \in 1..Len(rets[n]) : rets[n][k] = k
            /\ heap[fns[n]] = Len(rets[n])

\* Two function values, the first called three times and the second once, as
\* main does.
C1_Witness ==
    /\ prog = "closures"
    /\ Len(fns) >= 2
    /\ Len(rets[1]) = 3
    /\ Len(rets[2]) = 1

\* C2: as long as no SIGINT or SIGTERM has arrived, main has not passed the
\* receive on done (so "exiting" is not printed and main has not returned)
\* and the goroutine has not passed the receive on sigs.
C2_NoExitBeforeSignal ==
    (prog = "signals" /\ arrived = 0) =>
        /\ pc \in {"main", "go", "awaiting", "recvDone"}
        /\ pcG \in {"none", "recv"}
        /\ ~Printed("exiting")
        /\ proc = "running"

\* No signal yet, main waits on done and the goroutine waits on sigs.
C2_Witness ==
    /\ prog = "signals"
    /\ arrived = 0
    /\ pc = "recvDone"
    /\ pcG = "recv"

IsSignalName(line) == \E s \in Signals : line = SignalName(s)

\* A SIGINT or SIGTERM has been delivered to the program's registration.
SignalDelivered == prog = "signals" /\ notified /\ arrived > 0 /\ proc # "killed"

\* The goroutine has ended, main has printed "exiting" and the process has
\* exited.
SignalsFinished ==
    /\ prog = "signals"
    /\ pcG = "end"
    /\ Printed("exiting")
    /\ proc = "exited"
    /\ status = 0

\* "exiting" is the last line, and the signal and "awaiting signal" are
\* printed before it.
SignalsOrdered ==
    prog = "signals" =>
        \A j \in 1..Len(out) :
            out[j] = "exiting" =>
                /\ j = Len(out)
                /\ \E i \in 1..(j - 1) : out[i] = "awaiting signal"
                /\ \E i \in 1..(j - 1) : IsSignalName(out[i])

\* C3: once a signal has been delivered then, the goroutines being scheduled
\* fairly, the goroutine receives it, prints it and sends on done, and main
\* prints "exiting" and terminates; in every execution the printed signal and
\* "awaiting signal" precede "exiting".
C3_SignalLeadsToExit ==
    /\ SignalDelivered ~> SignalsFinished
    /\ []SignalsOrdered

\* The run of the sample output: awaiting signal, ^C, interrupt, exiting.
C3_Witness ==
    /\ SignalsFinished
    /\ out = <<"awaiting signal", "", "interrupt", "exiting">>

\* C5: the exit program ends with status 3 and the deferred
\* fmt.Println("defer !") never runs: it stays pending and "defer !" is
\* printed in no execution.
C5_ExitSkipsDefer ==
    /\ [](prog = "exit" =>
            /\ ~Printed("defer !")
            /\ proc \in {"running", "exited"}
            /\ proc = "exited" =>
                  /\ status = ExitCode
                  /\ defers = <<[fn |-> "Println", arg |-> "defer !"]>>)
    /\ (prog = "exit") ~> (proc = "exited" /\ status = ExitCode)

\* The exit program has exited with the deferred call pending.
C5_Witness ==
    /\ prog = "exit"
    /\ proc = "exited"
    /\ Len(defers) = 1

IsFileStep(c) == c.fn \in {"createFile", "writeFile", "closeFile"}
FileSteps == SelectSeq(calls, IsFileStep)

\* C6: when createFile succeeds the steps of the defer program run in the
\* order createFile, writeFile, closeFile, all on the file createFile
\* returned; closeFile runs once, after writeFile and as main returns, and
\* has run when the process has ended.
C6_DeferOrder ==
    (prog = "defer" /\ Succeeded("os.Create")) =>
        LET steps == [k \in 1..Len(FileSteps) |-> <<FileSteps[k].fn, FileSteps[k].arg>>]
            order == <<<<"createFile", f>>, <<"writeFile", f>>, <<"closeFile", f>>>>
        IN  /\ f # 0
            /\ Len(steps) <= 3
            /\ steps = SubSeq(order, 1, Len(steps))
            /\ Returned("closeFile") => pc = "return"
            /\ proc = "exited" => steps = order

\* The run of the sample output: created, written, closed, exit status 0.
C6_Witness ==
    /\ prog = "defer"
    /\ proc = "exited"
    /\ status = 0
    /\ out = <<"creating file", "writing data to file", "closing file">>

\* C7: Exec is called only after LookPath succeeded (a lookup error panics
\* first); a successful Exec replaces the process and nothing of main runs
\* after the call; an error of Exec leads to a panic.
C7_ExecReplaces ==
    prog = "exec" =>
        /\ Returned("Exec") => Succeeded("LookPath")
        /\ Failed("LookPath") => pc \in {"checkLook", "panicking"}
        /\ Succeeded("Exec") =>
              /\ proc = "replaced"
              /\ pc = "Exec"
              /\ calls[Len(calls)].fn = "Exec"
              /\ out = <<>>
        /\ Failed("Exec") => pc \in {"checkExec", "panicking"}
        /\ proc = "exited" =>
              /\ Failed("LookPath") \/ Failed("Exec")
              /\ status = PanicStatus
              /\ Printed(PanicLine(err))
        /\ proc \in {"running", "exited", "replaced"}

\* Exec succeeded and ls has replaced the program.
C7_Witness ==
    /\ prog = "exec"
    /\ proc = "replaced"

\* C10 (as panic.go's comment states it): when os.Create fails, the program
\* panics, prints an error message and the goroutine traces, and exits with
\* a non-zero status.
C10_PanicsOnCreateFailure ==
    (prog = "panic" /\ Failed("os.Create") /\ proc = "exited") =>
        /\ panicVal # "none"
        /\ Printed(GoroutineTrace)
        /\ status # 0


\* C4 (as stated): the handler answers hello only when the timer fired while
\* the context was not done, and a context cancelled first makes it reply
\* 500 with the text of ctx.Err() instead of completing the wait.
C4_CancelFirstGets500 ==
    prog = "context" =>
        \A r \in 1..MaxRequests :
            /\ reqs[r].code = StatusOK => reqs[r].first = "timer"
            /\ (reqs[r].first = "cancel" /\ reqs[r].code # 0) =>
                  /\ reqs[r].code = StatusInternalServerError
                  /\ reqs[r].body = <<"context canceled">>

\* C4 (amended): the handler answers hello only after the 10-second timer
\* has fired, and 500 with the text of ctx.Err() only when the context is
\* done; a handler waiting in the select stops waiting as soon as the
\* context is cancelled, and a handler that finds the context done with the
\* timer not fired replies 500.  When the select finds both ready either
\* reply can follow, also if the context was cancelled first.
C4_HelloAfterTimer ==
    prog = "context" =>
        \A r \in 1..MaxRequests :
            /\ reqs[r].code \in {0, StatusOK, StatusInternalServerError}
            /\ reqs[r].code = StatusOK =>
                  /\ reqs[r].fired
                  /\ reqs[r].body = <<"hello">>
            /\ reqs[r].code = StatusInternalServerError =>
                  /\ reqs[r].ctxErr = "Canceled"
                  /\ reqs[r].body = <<"context canceled">>
            /\ reqs[r].pc = "parked" =>
                  /\ reqs[r].ctxErr = NoErr
                  /\ ~reqs[r].fired
            /\ (reqs[r].code # 0 /\ reqs[r].ctxErr # NoErr /\ ~reqs[r].fired) =>
                  reqs[r].code = StatusInternalServerError

\* One request answered hello after the wait, and one answered 500 because
\* it was cancelled before its timer fired.
C4_Witness ==
    /\ prog = "context"
    /\ reqs[1].code = StatusOK
    /\ reqs[1].first = "timer"
    /\ reqs[2].code = StatusInternalServerError
    /\ reqs[2].first = "cancel"
    /\ ~reqs[2].fired

ParentWaits ==
    /\ prog = "spawn"
    /\ proc = "running"
    /\ pc = "grep"
    /\ \/ GrepExchange[gstep] = "Write" /\ grepIn = "open" /\ Len(inBuf) >= PipeCap
       \/ GrepExchange[gstep] = "ReadAll" /\ grepOut = "open" /\ outBuf = <<>>
            /\ child # "exited"
       \/ GrepExchange[gstep] = "Wait" /\ child \notin {"notstarted", "exited"}

GrepWaits ==
    /\ prog = "spawn"
    /\ child = "running"
    /\ \/ held = <<>> /\ inBuf = <<>> /\ grepIn = "open"
       \/ held # <<>> /\ grepOut # "nil" /\ Len(outBuf) >= PipeCap

IsGrepCall(c) ==
    c.fn \in {"StdinPipe", "StdoutPipe", "Start", "Write", "grepIn.Close", "ReadAll", "Wait"}
GrepCalls == SelectSeq(calls, IsGrepCall)

GrepExchangeSafe ==
    prog = "spawn" =>
        /\ [k \in 1..Len(GrepCalls) |-> GrepCalls[k].fn] =
              SubSeq(<<"StdinPipe", "StdoutPipe", "Start", "Write", "grepIn.Close",
                       "ReadAll", "Wait">>, 1, Len(GrepCalls))
        /\ ~(ParentWaits /\ GrepWaits)
        /\ (proc = "exited" /\ status = 0) => Len(GrepCalls) = 7

\* C8: the grep exchange runs in the order StdinPipe, StdoutPipe, Start,
\* Write, Close, ReadAll, Wait; in no reachable state do main and grep wait
\* on each other, and the program always comes to its end.
C8_GrepExchangeTerminates ==
    /\ []GrepExchangeSafe
    /\ (prog = "spawn") ~> (proc = "exited")

\* The run of the sample output: grep printed "hello grep" and the program
\* ended with status 0 and no error anywhere.
C8_Witness ==
    /\ prog = "spawn"
    /\ proc = "exited"
    /\ status = 0
    /\ grepBytes = <<<<"hello", "grep">>>>
    /\ \A k \in 1..Len(calls) : calls[k].err = NoErr

\* C9 (as stated): every error a call returns is checked and ends the
\* program: no call follows it, and the process ends with a status other
\* than 0.
C9_EveryErrorEndsProgram ==
    \A k \in 1..Len(calls) :
        calls[k].err # NoErr =>
            /\ k = Len(calls)
            /\ proc = "exited" => status # 0

\* The calls whose error value the programs test.
C9_CheckedCalls == {"os.Create", "Close", "LookPath", "Exec", "date.Output", "ls.Output"}

\* C9 (amended): an error returned by a call whose error the program tests
\* (os.Create, f.Close, exec.LookPath, syscall.Exec, Cmd.Output) ends the
\* program by a panic or by log-and-exit: no call follows it and the exit
\* status is 1 or 2.  The errors of StdinPipe, StdoutPipe, Start, Write,
\* grepIn.Close, ReadAll and Wait in the grep exchange, of ListenAndServe in
\* the context server and of Fprintln in writeFile are dropped.
C9_CheckedErrorEndsProgram ==
    \A k \in 1..Len(calls) :
        (calls[k].err # NoErr /\ calls[k].fn \in C9_CheckedCalls) =>
            /\ k = Len(calls)
            /\ proc = "exited" => status \in {FatalStatus, PanicStatus}

\* closeFile's Close failed and log.Fatalf ended the program with status 1.
C9_Witness ==
    /\ prog = "defer"
    /\ Failed("Close")
    /\ proc = "exited"
    /\ status = FatalStatus


\* The jobs main sends, the workers that have received job j (a worker has it
\* in hand, or has printed that it started it), and how often the value v has
\* been sent on results (it is in the channel still, or main has received it).
PoolJobs == 1..numJobs
Holding(w, j) ==
    workers[w].pc \in {"started", "finished", "send"} /\ workers[w].j = j
Logged(w, line) == \E k \in 1..Len(workers[w].log) : workers[w].log[k] = line
ReceivedBy(j) ==
    {w \in 1..NumWorkers : Holding(w, j) \/ Logged(w, <<"started  job", j>>)}
TimesCollected(v) == IF v \in DOMAIN collected THEN collected[v] ELSE 0
TimesSent(v) ==
    Cardinality({k \in 1..Len(results.buf) : results.buf[k] = v}) + TimesCollected(v)
PoolValues == {results.buf[k] : k \in 1..Len(results.buf)} \cup DOMAIN collected

PoolSafe ==
    /\ \A j \in PoolJobs : Cardinality(ReceivedBy(j)) <= 1
    /\ \A w \in 1..NumWorkers : \A k, l \in 1..Len(workers[w].log) :
          workers[w].log[k] = workers[w].log[l] => k = l
    /\ PoolValues \subseteq {j * 2 : j \in PoolJobs}
    /\ \A j \in PoolJobs :
          /\ TimesSent(j * 2) <= 1
          /\ TimesSent(j * 2) = 1 =>
                \E w \in 1..NumWorkers :
                    Logged(w, <<"finished job", j>>) /\ ~Holding(w, j)
    /\ pc = "send" /\ loop - NumWorkers <= numJobs => CanSend(jobs, numJobs)
    /\ \A w \in 1..NumWorkers : workers[w].pc = "send" => CanSend(results, numJobs)
    /\ pc = "collect" => loop - 1 = Cardinality(DOMAIN collected)

PoolDone ==
    /\ proc = "exited"
    /\ status = 0
    /\ collected = [v \in {j * 2 : j \in PoolJobs} |-> 1]
    /\ \A j \in PoolJobs : Cardinality(ReceivedBy(j)) = 1

\* C11: in the worker pool every job is received by exactly one worker, which
\* sends exactly one result j*2 for it; no send on jobs or results ever finds
\* its channel full; main receives every result once, numJobs values in all,
\* and then the program terminates.
C11_PoolDeliversEveryResult ==
    /\ [](prog = "pool" => PoolSafe)
    /\ [](prog = "pool" /\ proc = "exited" => PoolDone)
    /\ (prog = "pool" ~> proc = "exited")

\* Main has every result and the program has ended; one worker did two of the
\* jobs and another did none.
C11_Witness ==
    /\ prog = "pool"
    /\ PoolDone
    /\ \E w \in 1..NumWorkers : workers[w].log = <<>>
    /\ \E w \in 1..NumWorkers : Len(workers[w].log) >= 4


\* Main has received its last result: the collecting loop is over.
AllCollected == prog = "pool" /\ pc \in {"collect", "return"} /\ loop > numJobs

\* C12 (as the README states it): collecting all the results ensures that
\* the worker goroutines have finished: once main has received its last
\* result, every worker goroutine has terminated.
C12_WorkersTerminated ==
    AllCollected => \A w \in 1..NumWorkers : workers[w].pc = "done"

\* What the code gives once main has received its last result: no worker has
\* a job in hand and jobs is closed and drained, so all a worker can still
\* do is leave its loop; it may not have done so yet.
C12_WorkersIdle ==
    AllCollected =>
        /\ jobs.closed /\ jobs.buf = <<>>
        /\ \A w \in 1..NumWorkers : workers[w].pc \in {"range", "done"}

\* Main has every result while a worker has yet to find jobs closed.
C12_Witness ==
    /\ AllCollected
    /\ \E w \in 1..NumWorkers : workers[w].pc = "range" /\ workers[w].log # <<>>
    /\ \E w \in 1..NumWorkers : workers[w].pc = "done"


\* C13: once wg.Wait() has returned, ops is the number of goroutines times
\* the increments of each, every goroutine has ended (none can write ops any
\* more), and both prints show that number.
C13_OpsIsExact ==
    prog = "atomic" /\ pc \in {"println", "load", "return"} =>
        /\ ops = Goroutines * Increments
        /\ \A g \in 1..Goroutines : adders[g].pc = "done" /\ ~ENABLED atomicAdd(g)
        /\ \A k \in 1..Len(out) : out[k] = <<"ops:", Goroutines * Increments>>

\* The program has printed ops twice and ended.
C13_Witness ==
    /\ prog = "atomic"
    /\ proc = "exited"
    /\ Len(out) = 2
    /\ ops = Goroutines * Increments


\* The goroutines between mutex.Lock() and mutex.Unlock().
InsideMutex ==
    {<<"reader", r>> : r \in {x \in 1..Readers : readers[x].pc \in {"locked", "unlock"}}}
    \cup {<<"writer", w>> : w \in {x \in 1..Writers : writers[x].pc \in {"locked", "unlock"}}}
    \cup (IF pc \in {"locked", "unlock"} THEN {<<"main", 0>>} ELSE {})

\* C14: at most one goroutine (reader, writer or main) is between
\* mutex.Lock() and mutex.Unlock(), the mutex is locked exactly then, and a
\* goroutine about to read, write or print state is that one goroutine.
C14_MutualExclusion ==
    prog = "mutex" =>
        /\ Cardinality(InsideMutex) <= 1
        /\ mutex <=> InsideMutex # {}
        /\ \A r \in 1..Readers : ENABLED readerRead(r) => InsideMutex = {<<"reader", r>>}
        /\ \A w \in 1..Writers : ENABLED writerWrite(w) => InsideMutex = {<<"writer", w>>}
        /\ ENABLED mutexPrintState => InsideMutex = {<<"main", 0>>}

\* A writer is about to write state while main and a reader that has read
\* before are kept waiting in mutex.Lock().
C14_Witness ==
    /\ prog = "mutex"
    /\ pc = "lock"
    /\ readOps > 0
    /\ \E w \in 1..Writers : writers[w].pc = "locked"
    /\ \E r \in 1..Readers : readers[r].pc = "loop"


\* The value of the last write to key k the owner has processed, 0 if none.
LastWritten(k) ==
    LET idx == {i \in 1..Len(written) : written[i].key = k}
    IN  IF idx = {} THEN 0
        ELSE written[CHOOSE i \in idx : \A j \in idx : j <= i].val

\* A goroutine waits for a reply only while the owner serves its op, which
\* names its own resp channel; the map holds the last value written per key.
OwnerServesOne ==
    /\ \A c \in Clients :
          clients[c].pc = "recv" =>
              owner.pc \in {"write", "reply"} /\ owner.op.resp = c
    /\ owner.pc = "select" => owner.op = NoOp
    /\ \A k \in 0..(Keys - 1) : MapGet(owner.state, k) = LastWritten(k)

\* A step that ends a goroutine's wait is the owner's send on that
\* goroutine's resp channel; a read is answered with the last value written
\* to its key, a write with true; state changes in the owner's write only.
OwnerReplies ==
    /\ \A c \in Clients :
          clients[c].pc = "recv" /\ clients'[c].pc # "recv" =>
              /\ owner.pc = "reply" /\ owner.op.resp = c /\ owner'.pc = "select"
              /\ clients'[c].pc = "add"
              /\ \A d \in Clients \ {c} : clients'[d] = clients[d]
              /\ clients'[c].got = IF c[1] = "reader"
                                   THEN <<LastWritten(owner.op.key)>>
                                   ELSE <<TRUE>>
    /\ owner'.state # owner.state =>
          /\ owner.pc = "write"
          /\ owner'.state = MapSet(owner.state, owner.op.key, owner.op.val)
          /\ clients' = clients

\* C15: the map state belongs to the owning goroutine, which alone reads and
\* writes it; every op the owner receives gets one reply, on its own resp
\* channel, before the owner receives another; a read's reply is the value of
\* the last write to its key that the owner processed before it, 0 if none.
C15_OwnerAnswersEveryOp ==
    /\ [](prog = "stateful" => OwnerServesOne)
    /\ [][prog = "stateful" => OwnerReplies]_vars

\* A reader has been answered 1, the value a writer stored before in a
\* round it has completed.
C15_Witness ==
    /\ prog = "stateful"
    /\ \E c \in Clients : c[1] = "reader" /\ clients[c].pc = "add" /\ clients[c].got = <<1>>
    /\ counts.writeOps >= 1
    /\ Len(written) >= 1


\* The jobs the worker has received: those it has printed, and the one it has
\* just taken from the channel.
RECURSIVE ReceivedJobs(_)
ReceivedJobs(o) ==
    IF o = <<>> THEN <<>>
    ELSE IF Head(o)[1] = "received job"
    THEN <<Head(o)[2]>> \o ReceivedJobs(Tail(o))
    ELSE ReceivedJobs(Tail(o))
ClosingReceived ==
    ReceivedJobs(out) \o
        (IF closing.worker = "check" /\ closing.more THEN <<closing.j>> ELSE <<>>)

ClosingSafe ==
    /\ \E n \in 0..ClosingJobs : ClosingReceived = [k \in 1..n |-> k]
    /\ ~closing.more =>
          /\ closing.jobs.closed
          /\ ClosingReceived = [k \in 1..ClosingJobs |-> k]
    /\ closing.worker \in {"done", "returned"} => ~closing.more
    /\ pc = "return" => closing.worker = "returned"
    /\ pc = "send" /\ loop <= ClosingJobs => CanSend(closing.jobs, ClosingCap)

\* C16: the worker receives the jobs 1, 2, 3 once each and in that order; it
\* sees more == false only when jobs is closed and all three are received,
\* and only then sends on done; main's receive from done returns only then,
\* and the program always terminates.
C16_WorkerDrainsThenSignals ==
    /\ [](prog = "closing" => ClosingSafe)
    /\ (prog = "closing" ~> proc = "exited" /\ status = 0)

\* The program has ended; the worker had received job 1 before main sent job 2.
C16_Witness ==
    /\ prog = "closing"
    /\ proc = "exited"
    /\ out[2] = <<"received job", 1>>
    /\ out[Len(out)] = <<"received all jobs">>


TimeoutsSafe ==
    /\ \A n \in 1..2 :
          /\ timeouts.g[n] = "send" => CanSend(timeouts.c[n], ResultCap)
          /\ timeouts.g[n] \in {"none", "sleep", "send"} => timeouts.c[n].buf = <<>>
          /\ Len(timeouts.c[n].buf) <= 1
    /\ Printed(TimeoutText(1)) /\ timeouts.g[1] = "done" =>
          timeouts.c[1].buf = <<ResultText(1)>>

\* C17: a goroutine's send on its channel of capacity 1 always finds room,
\* so once its sleep is over the goroutine sends and ends unless the process
\* has ended before; after main took the 1-second timeout "result 1" stays
\* in c1, which nobody reads.
C17_SendNeverBlocks ==
    /\ [](prog = "timeouts" => TimeoutsSafe)
    /\ \A n \in 1..2 :
          (prog = "timeouts" /\ timeouts.g[n] = "sleep"
              ~> timeouts.g[n] = "done" \/ proc # "running")

\* Main took the first timeout and is in its second select; the first
\* goroutine has sent "result 1" and ended.
C17_Witness ==
    /\ prog = "timeouts"
    /\ proc = "running"
    /\ out = <<TimeoutText(1)>>
    /\ timeouts.round = 2
    /\ timeouts.g[1] = "done"
    /\ timeouts.c[1].buf = <<ResultText(1)>>


\* C19 as stated: timer2.Stop() returns true, "Timer 2 stopped" is printed
\* and "Timer 2 fired" is printed in no execution.
C19_Timer2NeverFires ==
    prog = "timers" =>
        /\ timers.stop2 # "false"
        /\ ~Printed("Timer 2 fired")
        /\ pc \in {"sleep", "return"} => Printed("Timer 2 stopped")

\* C19, amended: when timer2.Stop() runs before timer2's second is over it
\* returns true, "Timer 2 stopped" is printed, and timer2 never fires after
\* that: the goroutine stays at <-timer2.C and "Timer 2 fired" is not
\* printed, the 2-second wait included. When the second is over first, Stop
\* returns false, nothing is printed for it, and the timer has fired.
C19_StoppedTimerNeverFires ==
    prog = "timers" =>
        /\ timers.stop2 = "true" =>
              /\ timers.timer2 = NoTimer
              /\ timers.g = "recv"
              /\ ~Printed("Timer 2 fired")
              /\ pc \in {"sleep", "return"} => Printed("Timer 2 stopped")
        /\ timers.stop2 = "false" =>
              /\ ~Printed("Timer 2 stopped")
              /\ timers.timer2.C > 0 \/ timers.g \in {"println", "done"}
        /\ Printed("Timer 2 fired") => timers.stop2 # "true"

\* The program has ended after its 2-second wait with timer2 stopped.
C19_Witness ==
    /\ prog = "timers"
    /\ proc = "exited"
    /\ timers.stop2 = "true"
    /\ timers.sleep = 0
    /\ out = <<"Timer 1 fired", "Timer 2 stopped">>


\* C18: burstyLimiter never holds more than 3 tokens; main finds a token
\* waiting for each of the first 3 requests, one of those the fill put there
\* before any tick; every later request takes a token of a tick of its own,
\* so the requests served never exceed 3 plus the ticks delivered.
C18_BurstThenTicks ==
    prog = "rate" =>
        /\ Len(rate.burstyLimiter.buf) <= BurstCap
        /\ Len(rate.taken) <= BurstFill + rate.ticks
        /\ pc = "burstyLimit" /\ Len(rate.taken) < BurstFill => More(rate.burstyLimiter)
        /\ \A k \in 1..Len(rate.taken) :
              IF k <= BurstFill
              THEN rate.taken[k] = 0
              ELSE /\ rate.taken[k] \in 1..rate.ticks
                   /\ rate.taken[k] > rate.taken[k - 1]

\* The five bursty requests are served: three with the tokens of the fill,
\* the others with the first two ticks.
C18_Witness ==
    /\ prog = "rate"
    /\ proc = "exited"
    /\ rate.taken = <<0, 0, 0, 1, 2>>
    /\ Len(out) = 2 * NumRequests


\* C20: update works on a variable of its own, which holds a copy of b: its
\* assignment of 132 to index 3 changes the copy, and after the call b is
\* still [1 2 3 4 5], which is what main prints.
C20_UpdateLeavesCallerArray ==
    prog = "arrays" /\ pc \in {"after", "twoD", "loops", "return"} =>
        /\ arrays.arr # arrays.b
        /\ arrays.mem[arrays.arr] = [OneToFive EXCEPT ![3] = 132]
        /\ arrays.mem[arrays.b] = OneToFive
        /\ pc # "after" => out[Len(out) - (IF pc = "return" THEN 1 ELSE 0)]
                             = <<"After Updting:", arrays.b, OneToFive>>

\* main has printed b after the call and has ended.
C20_Witness ==
    /\ prog = "arrays"
    /\ proc = "exited"
    /\ Len(out) = 8
    /\ out[6] = <<"Updting:", arrays.arr, OneToFive>>
    /\ out[7] = <<"After Updting:", arrays.b, OneToFive>>
    /\ arrays.mem[arrays.arr][3] = 132


\* C21: after the two assignments len(m) is 2, which main prints; delete(m,
\* "k2") removes that pair only: k1 still maps to 7 and len(m) is 1; the
\* two-value lookup of "k2" that follows reports prs = false.
C21_DeleteRemovesOnePair ==
    prog = "maps" =>
        /\ pc \in {"get", "delete"} =>
              /\ MapLen(maps.m) = 2
              /\ MapGet(maps.m, "k1") = 7 /\ MapGet(maps.m, "k2") = 13
        /\ pc = "delete" => out[3] = <<"len:", 2>>
        /\ pc \in {"lookup", "literal", "return"} =>
              /\ DOMAIN maps.m = {"k1"}
              /\ maps.m["k1"] = 7
              /\ MapLen(maps.m) = 1
              /\ out[4] = <<"map:", maps.m>>
        /\ pc \in {"literal", "return"} =>
              /\ maps.prs = FALSE
              /\ out[5] = <<"prs:", FALSE>>

\* main has printed prs and n and has ended.
C21_Witness ==
    /\ prog = "maps"
    /\ proc = "exited"
    /\ Len(out) = 6
    /\ out[5] = <<"prs:", FALSE>>
    /\ MapLen(maps.m) = 1
    /\ MapLen(maps.n) = 2


\* C22: for all integers a and b, in either order, IntMin(a, b) is <= a and
\* <= b, is one of the two, and equals IntMin(b, a); TestIntMinBasic and
\* every row of the table of TestIntMinTableDriven pass.
C22_IntMinIsTheMinimum ==
    prog = "testing" =>
        /\ tests.ans # <<>> =>
              /\ tests.ans[1] <= tests.a /\ tests.ans[1] <= tests.b
              /\ tests.ans[1] \in {tests.a, tests.b}
              /\ tests.ans[2] = tests.ans[1]
        /\ tests.failed = <<>>
        /\ proc = "exited" => status = 0 /\ out = <<"PASS">>

\* The tests have passed after IntMin took a positive and a negative argument.
C22_Witness ==
    /\ prog = "testing"
    /\ proc = "exited"
    /\ tests.a > 0
    /\ tests.b < 0
    /\ tests.ans = <<tests.b, tests.b>>
    /\ tests.row = Len(TestTable) + 1


\* The lines of a response body, whatever their order.
BodyLines(resp) == {resp.body[i] : i \in 1..Len(resp.body)}

\* The server listens on 127.0.0.1:8080 only, with /hello and /headers
\* registered by then and no other route; each response is that of its
\* request alone.
ServerRoutes ==
    /\ server.addr \in {"none", "127.0.0.1:8080"}
    /\ server.addr # "none" =>
          /\ DOMAIN server.mux = {"/hello", "/headers"}
          /\ server.mux["/hello"] = "hello"
          /\ server.mux["/headers"] = "headers"
    /\ server.served # <<>> => server.addr # "none"
    /\ \A i \in 1..Len(server.served) :
          LET e == server.served[i]
          IN  /\ e.req.path = "/hello" =>
                    e.resp = [status |-> 200, body |-> <<"Hello, World!\n">>]
              /\ e.req.path = "/headers" =>
                    /\ e.resp.status = 200
                    /\ Len(e.resp.body) = Cardinality(DOMAIN e.req.header)
                    /\ {line[2] : line \in BodyLines(e.resp)} = DOMAIN e.req.header
                    /\ \A line \in BodyLines(e.resp) : line[4] = e.req.header[line[2]]
              /\ e.req.path \notin {"/hello", "/headers"} => e.resp.status = 404
              /\ \A j \in 1..Len(server.served) :
                    server.served[j].req = e.req =>
                        /\ server.served[j].resp.status = e.resp.status
                        /\ BodyLines(server.served[j].resp) = BodyLines(e.resp)

\* Handling a request leaves the routes and the address as they are.
ServerStateless ==
    server.addr # "none" => server'.mux = server.mux /\ server'.addr = server.addr

\* C23: http_server listens on the one address 127.0.0.1:8080 and serves two
\* routes, both registered before it listens: /hello always answers
\* "Hello, World!\n" and /headers answers one line per header key of the
\* request; handling a request changes no server state, so the response to a
\* request does not depend on the requests before it.
C23_TwoStatelessRoutes ==
    /\ [](prog = "server" => ServerRoutes)
    /\ [][prog = "server" => ServerStateless]_vars

\* The server has answered a /headers request with two header keys and then
\* a /hello request.
C23_Witness ==
    /\ prog = "server"
    /\ Len(server.served) = 2
    /\ server.served[1].req.path = "/headers"
    /\ Len(server.served[1].resp.body) = 2
    /\ server.served[2].req.path = "/hello"
    /\ server.served[2].req.header = server.served[1].req.header
    /\ server.served[2].resp.body = <<"Hello, World!\n">>


\* C24: d = 3e20 / n with n = 500000000 is exactly 6e11; 3e20 is beyond
\* int64 but d is not, and int64(d) is 600000000000, which main prints.
C24_ConstantDivisionIsExact ==
    prog = "constants" =>
        /\ ~Fits64(Const(3, 20))
        /\ pc \in {"d", "int64", "sin", "return"} =>
              /\ consts.n = [m |-> 5, e |-> 8]
              /\ consts.d = [m |-> 6, e |-> 11]
              /\ Fits64(consts.d)
              /\ Int64(consts.d) = <<6, 0, 0, 0, 0, 0, 0, 0, 0, 0, 0, 0>>
        /\ pc \in {"sin", "return"} =>
              /\ out[2] = <<"float64", 6, 11>>
              /\ out[3] = <<"int64", <<6, 0, 0, 0, 0, 0, 0, 0, 0, 0, 0, 0>>>>

\* main has printed int64(d) and has ended.
C24_Witness ==
    /\ prog = "constants"
    /\ proc = "exited"
    /\ Len(out) = 4
    /\ out[3] = <<"int64", Decimal(consts.d)>>
    /\ Len(Decimal(consts.d)) = 12


\* How many times a line is in a handler's log.
TimesLogged(log, line) == Cardinality({k \in 1..Len(log) : log[k] = line})

\* One invocation of hello: nothing is written before a case of the select
\* runs; once one has run there is one response, the "hello" body with status
\* 200 or the error with status 500, and "ended" is logged once, last, when
\* the handler returns.
HelloWritesOnce(r) ==
    LET h == reqs[r]
        ended == "server: hello handler ended"
    IN  /\ h.pc \in {"idle", "start", "select", "poll", "parked", "hello", "error"} =>
              h.body = <<>> /\ h.code = 0 /\ TimesLogged(h.log, ended) = 0
        /\ h.pc \in {"defer", "done"} =>
              /\ Len(h.body) = 1
              /\ \/ h.code = StatusOK /\ h.body = <<"hello">>
                 \/ h.code = StatusInternalServerError /\ h.body = <<ErrorText(h.ctxErr)>>
        /\ h.pc = "defer" => TimesLogged(h.log, ended) = 0
        /\ h.pc = "done" =>
              /\ TimesLogged(h.log, ended) = 1
              /\ h.log[Len(h.log)] = ended
              /\ h.log[1] = "server: hello handler started"

\* With the timer fired and the context done, the select can take either case.
EitherBranch(r) ==
    reqs[r].pc = "poll" /\ reqs[r].timer = 0 /\ reqs[r].ctxErr # NoErr =>
        /\ ENABLED (helloPoll(r) /\ reqs'[r].pc = "hello")
        /\ ENABLED (helloPoll(r) /\ reqs'[r].pc = "error")

\* C25: every invocation of the context server's hello handler writes one
\* response, the "hello" body or the 500 error, never both and never none, and
\* logs "server: hello handler ended" once, after the response, on both
\* paths; with the timer and ctx.Done() both ready either case may be taken.
C25_OneResponsePerInvocation ==
    prog = "context" =>
        \A r \in 1..MaxRequests : HelloWritesOnce(r) /\ EitherBranch(r)

\* Two invocations had the timer fired and the context done when they chose:
\* one has answered hello, the other the error, and both have ended.
C25_Witness ==
    /\ prog = "context"
    /\ \E r, q \in 1..MaxRequests :
          /\ reqs[r].pc = "done" /\ reqs[q].pc = "done"
          /\ reqs[r].fired /\ reqs[r].ctxErr # NoErr /\ reqs[r].code = StatusOK
          /\ reqs[q].fired /\ reqs[q].ctxErr # NoErr
          /\ reqs[q].code = StatusInternalServerError


\* How many calls of fn the program has made.
TimesCalled(fn) == Cardinality({k \in 1..Len(calls) : calls[k].fn = fn})

\* C26: after a successful http.Get, resp.Body.Close() is called exactly once
\* by the time the process ends, on a normal return and when a scanner error
\* makes the program panic; when http.Get returns an error the program panics
\* with no defer registered: Close is never called and resp is never used.
C26_BodyClosedOnce ==
    prog = "client" =>
        /\ TimesCalled("Body.Close") <= 1
        /\ Failed("http.Get") =>
              /\ client.resp = "nil"
              /\ defers = <<>>
              /\ calls = <<Call("http.Get", "nil", "dial error")>>
              /\ proc = "exited" => status = PanicStatus
        /\ Succeeded("http.Get") =>
              /\ \A k \in 1..Len(calls) : calls[k].fn # "http.Get" => calls[k].arg = "resp"
              /\ proc = "exited" =>
                    /\ TimesCalled("Body.Close") = 1
                    /\ defers = <<>>
                    /\ status = IF client.scanErr = NoErr THEN 0 ELSE PanicStatus

\* A scanner error after the first line: the program has panicked and has
\* closed the body on the way out.
C26_Witness ==
    /\ prog = "client"
    /\ proc = "exited"
    /\ status = PanicStatus
    /\ client.scanErr # NoErr
    /\ Len(out) = 4
    /\ TimesCalled("Body.Close") = 1


\* C27: in the defer program a failed os.Create makes createFile panic
\* before the defer statement: neither writeFile nor closeFile runs; an error
\* of f.Close() makes closeFile log it and exit with status 1; an error of
\* the write in writeFile is ignored: main returns and closeFile still runs.
C27_DeferErrorPaths ==
    prog = "defer" =>
        /\ Failed("os.Create") =>
              /\ ~Returned("writeFile") /\ ~Returned("closeFile")
              /\ defers = <<>>
              /\ pc = "panicking"
              /\ proc = "exited" => status = PanicStatus
        /\ Failed("Close") =>
              /\ proc = "exited"
              /\ status = FatalStatus
              /\ out[Len(out)] = "something went wrong while closing file"
              /\ out[Len(out) - 1] = "closing file"
        /\ Failed("Fprintln") =>
              /\ pc = "return"
              /\ panicVal = "none"
              /\ proc = "exited" =>
                    /\ Returned("closeFile")
                    /\ status = IF Failed("Close") THEN FatalStatus ELSE 0

\* The write failed and then the close: closeFile has run and has ended the
\* process with status 1.
C27_Witness ==
    /\ prog = "defer"
    /\ Failed("Fprintln")
    /\ Failed("Close")
    /\ proc = "exited"
    /\ status = FatalStatus


\* C28: with log.Fatalf as the code has it, a failed os.Create makes
\* panic.go log the message once and exit with status 1, without a panic and
\* without a goroutine trace; after a successful os.Create main returns
\* normally with status 0 and prints nothing.
C28_FatalfExitsWithOne ==
    prog = "panic" =>
        /\ panicVal = "none"
        /\ pc # "panicking"
        /\ ~Printed(GoroutineTrace)
        /\ (Failed("os.Create") /\ proc = "exited") =>
              /\ status = FatalStatus
              /\ out = <<"Something went wrong while creating file">>
        /\ (Succeeded("os.Create") /\ proc = "exited") =>
              /\ status = 0
              /\ pc = "return"
              /\ out = <<>>
        /\ proc = "running" => out = <<>>

\* os.Create has failed and the process has ended with status 1.
C28_Witness ==
    /\ prog = "panic"
    /\ Failed("os.Create")
    /\ proc = "exited"
    /\ status = FatalStatus
    /\ Len(out) = 1


\* The names of signals among the printed lines.
SignalsPrinted == Cardinality({k \in 1..Len(out) : IsSignalName(out[k])})

\* The goroutine has taken a signal out of sigs.
SignalReceived == pcG \in {"println", "printSig", "send", "end"}

\* The process has ended by main returning.
SignalsTerminated == prog = "signals" /\ proc = "exited" /\ status = 0

\* done always has room when the goroutine sends, and one signal at most is
\* printed.
SendFreeOnePrinted ==
    prog = "signals" =>
        /\ Len(sigs) <= ChanCap
        /\ pcG = "send" => (done = <<>> /\ ENABLED gSend)
        /\ SignalsPrinted <= 1
        /\ SignalReceived => IsSignalName(SignalName(sig))

\* C29 as stated: every signal delivered after signal.Notify is held in
\* sigs: the delivery adds it to the channel, whatever main and the goroutine
\* are doing, and it leads to termination; the send on done never blocks and
\* one signal at most is printed.
C29_EverySignalHeld ==
    /\ []SendFreeOnePrinted
    /\ [][\A s \in Signals :
            (notified /\ SignalArrives(s)) => sigs' = Append(sigs, s)]_vars
    /\ SignalDelivered ~> SignalsTerminated

\* C29, amended: the first signal delivered after signal.Notify, also when
\* it comes before main prints "awaiting signal" or before the goroutine is
\* started, is held in sigs until the goroutine receives it, and a signal
\* delivered when sigs is empty is always held; a signal delivered while
\* sigs is full is dropped.  Every delivery after Notify leads to
\* termination, the send on done never blocks, and one signal at most is
\* printed however many are delivered.
C29_FirstSignalHeld ==
    /\ []SendFreeOnePrinted
    /\ [](SignalDelivered => (Len(sigs) = 1 \/ SignalReceived))
    /\ [][\A s \in Signals :
            (notified /\ SignalArrives(s)) =>
                sigs' = IF sigs = <<>> THEN <<s>> ELSE sigs]_vars
    /\ SignalDelivered ~> SignalsTerminated

\* Two signals were delivered before the goroutine was started: sigs holds
\* the first and the second was dropped.
C29_Witness ==
    /\ prog = "signals"
    /\ notified
    /\ pcG = "none"
    /\ ~Printed("awaiting signal")
    /\ arrived = 2
    /\ Len(sigs) = 1


\* The goroutine whose request the owner is serving.
Served == owner.op.resp

\* A goroutine of the stateful program can take a step: the owner can write
\* or can hand its reply over, a request can meet the owner's select, or a
\* requester can count its round.  (The number of rounds a run of the model
\* explores plays no part: a requester at the top of its loop is sending.)
StatefulCanStep ==
    \/ owner.pc = "write"
    \/ owner.pc = "reply" /\ clients[Served].pc = "recv"
    \/ owner.pc = "select" /\ \E c \in Clients : clients[c].pc = "loop"
    \/ \E c \in Clients : clients[c].pc = "add"

\* While the process runs the owner's send on resp finds its receiver, a
\* requester that has sent waits on its own resp channel for the owner that
\* serves it, and once the goroutines are started one of them can step.
NoStatefulDeadlock ==
    (prog = "stateful" /\ proc = "running") =>
        /\ owner.pc = "reply" =>
              /\ Served \in Clients
              /\ clients[Served].pc = "recv"
              /\ ENABLED ownerReply(Served)
        /\ owner.pc = "write" => ENABLED ownerWrite
        /\ \A c \in Clients :
              clients[c].pc = "recv" =>
                  /\ owner.pc \in {"write", "reply"}
                  /\ Served = c
        /\ pc \in {"sleep", "writeOps", "return"} => StatefulCanStep

\* A requester that has sent a request does nothing but receive on its resp
\* channel: its next step is the owner's reply.
RequesterOnlyReceives ==
    prog = "stateful" =>
        \A c \in Clients :
            (clients[c].pc = "recv" /\ clients'[c] # clients[c]) =>
                /\ owner.pc = "reply" /\ Served = c
                /\ clients'[c].pc = "add"

\* The owner is serving a request it has accepted, and the owner is back at
\* its select.
Accepted == prog = "stateful" /\ owner.pc \in {"write", "reply"}
BackAtSelect == owner.pc = "select"

\* The owner gets back to its select from a request only by handing the
\* answer to the requester it serves.
AnswersServed ==
    (Accepted /\ BackAtSelect') =>
        /\ owner.pc = "reply"
        /\ clients[Served].pc = "recv"
        /\ clients'[Served].pc = "add"
        /\ clients'[Served].got # <<>>

\* C30: the request/reply protocol of the stateful goroutines cannot
\* deadlock: the owner is never left blocked sending on a resp channel, and
\* the owner and the requesters are never all blocked, because a requester
\* that has sent a request only receives on its own resp channel; the
\* goroutines being scheduled fairly, a request the owner has accepted is
\* answered (the owner hands the answer to its requester and is back at
\* its select), unless main has returned and ended the process first.
C30_NoDeadlockEveryRequestAnswered ==
    /\ []NoStatefulDeadlock
    /\ [][RequesterOnlyReceives /\ AnswersServed]_vars
    /\ Accepted ~> (BackAtSelect \/ proc # "running")

\* The writer's request has been answered while both readers are started,
\* one of them waiting for the owner's reply to its read.
C30_Witness ==
    /\ prog = "stateful"
    /\ proc = "running"
    /\ clients[<<"writer", 1>>].pc = "add"
    /\ clients[<<"writer", 1>>].got = <<TRUE>>
    /\ \E c \in Clients : c[1] = "reader" /\ clients[c].pc = "loop"
    /\ counts.readOps >= 1

====
